---- MODULE Spec2Model ----
(***************************************************************************)
(* A model of the TDT search engine core: the buffered positional inverted *)
(* index (index/storage.py), the indexer that fills it (index/indexer.py), *)
(* and the BM25 scorer with its phrase probe (search/scorer.py,            *)
(* search/query_parser.py).                                                *)
(*                                                                         *)
(* The IndexStorage object is the record held by the variable store; its   *)
(* fields carry the names of the attributes of the Python class.  Every    *)
(* method of the class is a pure operator from a store (and the method's   *)
(* arguments) to the store it leaves behind and the value it returns; the  *)
(* actions of the specifications apply these operators.                    *)
(***************************************************************************)
EXTENDS Integers, Sequences, FiniteSets, TLC

VARIABLES
    store,    \* the IndexStorage object
    file,     \* what is stored at index_path: NoFile or a pickled payload
    now,      \* the wall clock read by time.time()
    last,     \* the last call made on the store and the value it returned
    ref,      \* reference store: every accepted event written directly
    saved,    \* what the store held, buffer included, at the last save
    events,   \* number of position-events accepted so far
    indexer,  \* the Indexer and the progress of its build_index call
    conc,     \* the threads that share the store, each with its position
    scorer    \* the TfIdfScorer object of the searching process

vars == <<store, file, now, last, ref, saved, events, indexer, conc, scorer>>

\* what the methods of the store leave alone
others == <<indexer, conc, scorer>>

----------------------------------------------------------------------------
(* Bounds of the model.                                                    *)

Terms == {"a", "b"}
Docs == {"d1", "d2"}

\* the positions passed to add_term and batch_add_terms
Positions == 0..1
\* at most MaxEvents position-events are accepted by the store in one run
MaxEvents == 2
\* the clock advances up to MaxTime
MaxTime == 1
\* config.INDEX_BUFFER_SIZE (100000 in config.py), scaled to the model
max_buffer_size == 2
\* config.INDEX_FLUSH_INTERVAL (30 s in config.py), scaled to clock ticks
flush_interval == 1

\* batch_add_terms is called with at most MaxBatch positions for a pair
MaxBatch == MaxEvents
\* get_docs_with_terms is called with at most MaxTerms terms
MaxTerms == Cardinality(Terms)

SeqsUpTo(S, n) == UNION {[1..k -> S] : k \in 0..n}

----------------------------------------------------------------------------
(* Data model: a mapping is a function whose domain is its key set.        *)

EmptyMap == [x \in {} |-> x]

NewPosting == [tf |-> 0, positions |-> <<>>]

\* storage.py __init__
NewStore(time) ==
    [index |-> EmptyMap,
     doc_lengths |-> EmptyMap,
     total_docs |-> 0,
     vocabulary |-> {},
     write_buffer |-> EmptyMap,
     buffer_size |-> 0,
     last_flush_time |-> time]

\* self._write_buffer[term][doc_id]: the defaultdict creates what is missing
BufferEntry(buf, term, doc_id) ==
    IF term \in DOMAIN buf /\ doc_id \in DOMAIN buf[term]
    THEN buf[term][doc_id]
    ELSE NewPosting

\* m with m[term][doc_id] set to posting
PutPosting(m, term, doc_id, posting) ==
    LET old == IF term \in DOMAIN m THEN m[term] ELSE EmptyMap
        new == [d \in DOMAIN old \cup {doc_id} |->
                   IF d = doc_id THEN posting ELSE old[d]]
    IN [t \in DOMAIN m \cup {term} |-> IF t = term THEN new ELSE m[t]]

\* the three statements of add_term / batch_add_terms that record one event
BufferAdd(buf, term, doc_id, position) ==
    LET e == BufferEntry(buf, term, doc_id)
    IN PutPosting(buf, term, doc_id,
                  [tf |-> e.tf + 1,
                   positions |-> Append(e.positions, position)])

\* a flush that replaces a posting by the buffered one instead of merging
MergePostingOverwrite(old, data) ==
    [tf |-> data.tf, positions |-> data.positions]

\* a flush that puts the buffered positions in front of the stored ones
MergePostingPrepend(old, data) ==
    [tf |-> old.tf + data.tf, positions |-> data.positions \o old.positions]

\* _flush_buffer, lines 74-75: tf summed, positions extended
MergePosting(old, data) ==
    [tf |-> old.tf + data.tf, positions |-> old.positions \o data.positions]

\* a flush that sums tf but drops the buffered positions
MergeDocsTfOnly(old, docs) ==
    [d \in DOMAIN old \cup DOMAIN docs |->
        IF d \notin DOMAIN docs THEN old[d]
        ELSE LET o == IF d \in DOMAIN old THEN old[d] ELSE NewPosting
             IN [tf |-> o.tf + docs[d].tf, positions |-> o.positions]]

\* _flush_buffer, lines 70-75: the postings of one term
MergeDocs(old, docs) ==
    [d \in DOMAIN old \cup DOMAIN docs |->
        IF d \notin DOMAIN docs THEN old[d]
        ELSE MergePosting(IF d \in DOMAIN old THEN old[d] ELSE NewPosting,
                          docs[d])]

\* _flush_buffer, lines 65-75: the main index after the merge
FlushIndex(index, buf) ==
    [t \in DOMAIN index \cup DOMAIN buf |->
        IF t \notin DOMAIN buf THEN index[t]
        ELSE MergeDocs(IF t \in DOMAIN index THEN index[t] ELSE EmptyMap,
                       buf[t])]

\* a flush that never adds to the vocabulary
FlushVocabularyNone(vocabulary, index, buf) == vocabulary

\* _flush_buffer, lines 66-68: a term enters the vocabulary when it enters
\* the index
FlushVocabulary(vocabulary, index, buf) ==
    vocabulary \cup {t \in DOMAIN buf : t \notin DOMAIN index}

\* _flush_buffer
flush_buffer(s, time) ==
    [s EXCEPT !.index = FlushIndex(s.index, s.write_buffer),
              !.vocabulary = FlushVocabulary(s.vocabulary, s.index,
                                             s.write_buffer),
              !.write_buffer = EmptyMap,
              !.buffer_size = 0,
              !.last_flush_time = time]

\* add_term
add_term(s, term, doc_id, position, time) ==
    LET s1 == [s EXCEPT !.write_buffer =
                            BufferAdd(s.write_buffer, term, doc_id, position),
                        !.buffer_size = s.buffer_size + 1]
    IN IF s1.buffer_size >= max_buffer_size
          \/ time - s1.last_flush_time >= flush_interval
       THEN flush_buffer(s1, time)
       ELSE s1

\* an update that replaces the whole mapping by the one entry
update_doc_length_only(s, doc_id, length) ==
    [s EXCEPT !.doc_lengths = [d \in {doc_id} |-> length]]

\* update_doc_length
update_doc_length(s, doc_id, length) ==
    [s EXCEPT !.doc_lengths =
        [d \in DOMAIN s.doc_lengths \cup {doc_id} |->
            IF d = doc_id THEN length ELSE s.doc_lengths[d]]]

RECURSIVE AddPositions(_, _, _, _)
\* batch_add_terms, lines 254-257: the positions of one (term, doc_id)
AddPositions(buf, term, doc_id, positions) ==
    IF positions = <<>> THEN buf
    ELSE AddPositions(BufferAdd(buf, term, doc_id, Head(positions)),
                      term, doc_id, Tail(positions))

\* the (term, doc_id) pairs that have an entry in a nested mapping
PostingKeys(m) == UNION {{<<t, d>> : d \in DOMAIN m[t]} : t \in DOMAIN m}

RECURSIVE AddPairs(_, _, _)
\* batch_add_terms, lines 252-257
AddPairs(buf, tdp, pairs) ==
    IF pairs = {} THEN buf
    ELSE LET pr == CHOOSE x \in pairs : TRUE
         IN AddPairs(AddPositions(buf, pr[1], pr[2], tdp[pr[1]][pr[2]]),
                     tdp, pairs \ {pr})

RECURSIVE CountPositions(_, _)
CountPositions(tdp, pairs) ==
    IF pairs = {} THEN 0
    ELSE LET pr == CHOOSE x \in pairs : TRUE
         IN Len(tdp[pr[1]][pr[2]]) + CountPositions(tdp, pairs \ {pr})

\* batch_add_terms: only the size of the buffer triggers its flush
batch_add_terms(s, tdp, time) ==
    LET s1 == [s EXCEPT !.write_buffer =
                            AddPairs(s.write_buffer, tdp, PostingKeys(tdp)),
                        !.buffer_size =
                            s.buffer_size + CountPositions(tdp, PostingKeys(tdp))]
    IN IF s1.buffer_size >= max_buffer_size
       THEN flush_buffer(s1, time)
       ELSE s1

----------------------------------------------------------------------------
(* Reads.  Each returns the store it leaves and the value it returns.      *)

\* a get_term_info that reads the main index without looking at the buffer
get_term_info_noflush(s, term, time) ==
    [store |-> s,
     ret |-> IF term \in DOMAIN s.index THEN s.index[term] ELSE EmptyMap]

\* get_term_info
get_term_info(s, term, time) ==
    LET s1 == IF term \in DOMAIN s.write_buffer
              THEN flush_buffer(s, time) ELSE s
    IN [store |-> s1,
        ret |-> IF term \in DOMAIN s1.index THEN s1.index[term] ELSE EmptyMap]

\* get_doc_frequency
get_doc_frequency(s, term, time) ==
    LET s1 == IF term \in DOMAIN s.write_buffer
              THEN flush_buffer(s, time) ELSE s
    IN [store |-> s1,
        ret |-> IF term \in DOMAIN s1.index
                THEN Cardinality(DOMAIN s1.index[term]) ELSE 0]

\* get_term_positions: the flush is conditioned on the (term, doc_id) pair
get_term_positions(s, term, doc_id, time) ==
    LET s1 == IF term \in DOMAIN s.write_buffer
                 /\ doc_id \in DOMAIN s.write_buffer[term]
              THEN flush_buffer(s, time) ELSE s
    IN [store |-> s1,
        ret |-> IF term \in DOMAIN s1.index /\ doc_id \in DOMAIN s1.index[term]
                THEN s1.index[term][doc_id].positions ELSE <<>>]

RECURSIVE DocsLoopFirstOnly(_, _, _, _)
\* a loop that keeps the documents of the first term and only tests the
\* presence of the others
DocsLoopFirstOnly(index, terms, docs, first) ==
    IF terms = <<>> THEN docs
    ELSE IF Head(terms) \in DOMAIN index
         THEN DocsLoopFirstOnly(index, Tail(terms),
                                IF first THEN DOMAIN index[Head(terms)]
                                ELSE docs,
                                FALSE)
         ELSE {}

RECURSIVE DocsLoop(_, _, _, _)
\* get_docs_with_terms, lines 135-148: the loop over terms
DocsLoop(index, terms, docs, first) ==
    IF terms = <<>> THEN docs
    ELSE IF Head(terms) \in DOMAIN index
         THEN DocsLoop(index, Tail(terms),
                       IF first THEN DOMAIN index[Head(terms)]
                       ELSE docs \cap DOMAIN index[Head(terms)],
                       FALSE)
         ELSE {}

\* get_docs_with_terms
get_docs_with_terms(s, terms, time) ==
    LET flush_needed == \E i \in 1..Len(terms) :
                            terms[i] \in DOMAIN s.write_buffer
        s1 == IF flush_needed THEN flush_buffer(s, time) ELSE s
    IN [store |-> s1,
        ret |-> IF terms = <<>> THEN {}
                ELSE DocsLoop(s1.index, terms, {}, TRUE)]

----------------------------------------------------------------------------
(* Persistence.  pickle writes a mapping as the list of its items and      *)
(* rebuilds the mapping from the items when it loads.                      *)

NoFile == [kind |-> "missing"]

\* a file whose bytes pickle.load cannot decode
Undecodable == [kind |-> "undecodable"]

\* save_index, lines 185-190: the keys of the mapping that is serialized,
\* in the order load_index reads them
PayloadKeys == <<"index", "doc_lengths", "total_docs", "vocabulary">>

\* save_index, lines 185-191: the payload pickle.dump writes
PickleDump(s) ==
    [kind |-> "pickle",
     keys |-> {PayloadKeys[k] : k \in DOMAIN PayloadKeys},
     index_keys |-> DOMAIN s.index,
     index_items |-> {<<pr[1], pr[2], s.index[pr[1]][pr[2]].tf,
                        s.index[pr[1]][pr[2]].positions>> :
                      pr \in PostingKeys(s.index)},
     doc_lengths |-> {<<d, s.doc_lengths[d]>> : d \in DOMAIN s.doc_lengths},
     total_docs |-> s.total_docs,
     vocabulary |-> s.vocabulary]

\* a loader that restores the term frequencies but not the positions
PickleLoadIndexNoPositions(data) ==
    [t \in data.index_keys |->
        [d \in {x[2] : x \in {y \in data.index_items : y[1] = t}} |->
            LET x == CHOOSE y \in data.index_items : y[1] = t /\ y[2] = d
            IN [tf |-> x[3], positions |-> <<>>]]]

\* load_index, lines 211-212: data['index'] as pickle.load rebuilds it
PickleLoadIndex(data) ==
    [t \in data.index_keys |->
        [d \in {x[2] : x \in {y \in data.index_items : y[1] = t}} |->
            LET x == CHOOSE y \in data.index_items : y[1] = t /\ y[2] = d
            IN [tf |-> x[3], positions |-> x[4]]]]

\* load_index, line 213: data['doc_lengths']
PickleLoadDocLengths(data) ==
    [d \in {x[1] : x \in data.doc_lengths} |->
        (CHOOSE x \in data.doc_lengths : x[1] = d)[2]]

\* a save that serializes the main index without flushing the buffer first
save_index_noflush(s, time) ==
    [store |-> s, data |-> PickleDump(s)]

\* save_index: the flush (under the lock), then the serialization
save_index(s, time) ==
    LET s1 == IF s.buffer_size > 0 THEN flush_buffer(s, time) ELSE s
    IN [store |-> s1, data |-> PickleDump(s1)]

\* load_index, lines 212-215: one assignment from the loaded mapping
LoadField(s, f, key) ==
    IF key = "index" THEN [s EXCEPT !.index = PickleLoadIndex(f)]
    ELSE IF key = "doc_lengths"
    THEN [s EXCEPT !.doc_lengths = PickleLoadDocLengths(f)]
    ELSE IF key = "total_docs" THEN [s EXCEPT !.total_docs = f.total_docs]
    ELSE [s EXCEPT !.vocabulary = f.vocabulary]

RECURSIVE LoadFields(_, _, _)
\* load_index, lines 212-215: the assignments from key number k on, up to
\* the first key the loaded mapping lacks (data[key] raises KeyError there)
LoadFields(s, f, k) ==
    IF k > Len(PayloadKeys) \/ PayloadKeys[k] \notin f.keys THEN s
    ELSE LoadFields(LoadField(s, f, PayloadKeys[k]), f, k + 1)

\* load_index: False on a missing file; an exception of pickle.load is not
\* among the caught ones and leaves the call; a KeyError is caught and
\* answered with False, the assignments made before it staying in place
load_index(s, f) ==
    IF f.kind = "missing"
    THEN [store |-> s, ret |-> FALSE, raised |-> FALSE]
    ELSE IF f.kind = "undecodable"
    THEN [store |-> s, raised |-> TRUE, error |-> "UnpicklingError"]
    ELSE [store |-> LoadFields(s, f, 1),
          ret |-> \A k \in DOMAIN PayloadKeys : PayloadKeys[k] \in f.keys,
          raised |-> FALSE]

----------------------------------------------------------------------------
(* The reference store: every position-event written straight into a main *)
(* index, tf incremented by one and the position appended.                 *)

RefAdd(r, term, doc_id, position) ==
    LET docs == IF term \in DOMAIN r THEN r[term] ELSE EmptyMap
        old == IF doc_id \in DOMAIN docs THEN docs[doc_id]
               ELSE [tf |-> 0, positions |-> <<>>]
        new == [tf |-> old.tf + 1,
                positions |-> old.positions \o <<position>>]
    IN [t \in DOMAIN r \cup {term} |->
          IF t # term THEN r[t]
          ELSE [d \in DOMAIN docs \cup {doc_id} |->
                  IF d = doc_id THEN new ELSE docs[d]]]

RECURSIVE RefAddPositions(_, _, _, _)
RefAddPositions(r, term, doc_id, positions) ==
    IF positions = <<>> THEN r
    ELSE RefAddPositions(RefAdd(r, term, doc_id, Head(positions)),
                         term, doc_id, Tail(positions))

RECURSIVE RefAddAll(_, _, _)
\* r with the positions of every pair of the mapping m written directly
RefAddAll(r, m, pairs) ==
    IF pairs = {} THEN r
    ELSE LET pr == CHOOSE x \in pairs : TRUE
         IN RefAddAll(RefAddPositions(r, pr[1], pr[2], m[pr[1]][pr[2]]),
                      m, pairs \ {pr})

RefTermInfo(r, term) == IF term \in DOMAIN r THEN r[term] ELSE EmptyMap

RefDocFrequency(r, term) ==
    IF term \in DOMAIN r THEN Cardinality(DOMAIN r[term]) ELSE 0

RefTermPositions(r, term, doc_id) ==
    IF term \in DOMAIN r /\ doc_id \in DOMAIN r[term]
    THEN r[term][doc_id].positions ELSE <<>>

RefDocsWithTerms(r, terms) ==
    IF terms = <<>> \/ \E i \in 1..Len(terms) : terms[i] \notin DOMAIN r
    THEN {}
    ELSE {d \in Docs : \A i \in 1..Len(terms) : d \in DOMAIN r[terms[i]]}

----------------------------------------------------------------------------
(* Spec: one caller drives one IndexStorage through its public methods.    *)

ReadOps == {"get_term_info", "get_doc_frequency", "get_term_positions",
            "get_docs_with_terms"}

NoCall == [op |-> "none"]

\* the mappings batch_add_terms is called with
BatchInputs ==
    {t :> (d :> ps) : t \in Terms, d \in Docs,
                      ps \in SeqsUpTo(Positions, MaxBatch)}
    \cup {[t \in Terms |-> (d :> <<p>>)] : d \in Docs, p \in Positions}
    \cup {t :> EmptyMap : t \in Terms}

\* no build_index call is in progress
NoBuild == [pc |-> "none"]

\* the store has a single caller
NoThreads == [pc |-> EmptyMap]

\* no TfIdfScorer has been constructed
NoScorer == [constructed |-> FALSE]

Init ==
    /\ store = NewStore(0)
    /\ file = NoFile
    /\ now = 0
    /\ last = NoCall
    /\ ref = EmptyMap
    /\ saved = NoFile
    /\ events = 0
    /\ indexer = NoBuild
    /\ conc = NoThreads
    /\ scorer = NoScorer

\* time passes between two calls
Tick ==
    /\ now < MaxTime
    /\ now' = now + 1
    /\ UNCHANGED <<store, file, last, ref, saved, events, others>>

AddTerm(term, doc_id, position) ==
    /\ events < MaxEvents
    /\ store' = add_term(store, term, doc_id, position, now)
    /\ ref' = RefAdd(ref, term, doc_id, position)
    /\ events' = events + 1
    /\ last' = [op |-> "add_term"]
    /\ UNCHANGED <<file, now, saved, others>>

BatchAddTerms(tdp) ==
    /\ events + CountPositions(tdp, PostingKeys(tdp)) <= MaxEvents
    /\ store' = batch_add_terms(store, tdp, now)
    /\ ref' = RefAddAll(ref, tdp, PostingKeys(tdp))
    /\ events' = events + CountPositions(tdp, PostingKeys(tdp))
    /\ last' = [op |-> "batch_add_terms"]
    /\ UNCHANGED <<file, now, saved, others>>

GetTermInfo(term) ==
    LET r == get_term_info(store, term, now)
    IN /\ store' = r.store
       /\ last' = [op |-> "get_term_info", terms |-> <<term>>, ret |-> r.ret]
       /\ UNCHANGED <<file, now, ref, saved, events, others>>

GetDocFrequency(term) ==
    LET r == get_doc_frequency(store, term, now)
    IN /\ store' = r.store
       /\ last' = [op |-> "get_doc_frequency", terms |-> <<term>>,
                   ret |-> r.ret]
       /\ UNCHANGED <<file, now, ref, saved, events, others>>

GetTermPositions(term, doc_id) ==
    LET r == get_term_positions(store, term, doc_id, now)
    IN /\ store' = r.store
       /\ last' = [op |-> "get_term_positions", terms |-> <<term>>,
                   doc_id |-> doc_id, ret |-> r.ret]
       /\ UNCHANGED <<file, now, ref, saved, events, others>>

GetDocsWithTerms(terms) ==
    LET r == get_docs_with_terms(store, terms, now)
    IN /\ store' = r.store
       /\ last' = [op |-> "get_docs_with_terms", terms |-> terms,
                   ret |-> r.ret]
       /\ UNCHANGED <<file, now, ref, saved, events, others>>

SaveIndex ==
    LET r == save_index(store, now)
    IN /\ store' = r.store
       /\ file' = r.data
       /\ saved' = [index |-> ref,
                    doc_lengths |-> store.doc_lengths,
                    total_docs |-> store.total_docs,
                    vocabulary |-> DOMAIN ref,
                    buffered |-> store.buffer_size]
       /\ last' = [op |-> "save_index"]
       /\ UNCHANGED <<now, ref, events, others>>

\* the reference store restarts from what was loaded, followed by the
\* events the loading store still holds in its buffer
LoadIndex ==
    LET r == load_index(store, file)
    IN /\ store' = r.store
       /\ last' = [op |-> "load_index", ret |-> r.ret]
       /\ ref' = IF r.ret
                 THEN RefAddAll(r.store.index,
                                [t \in DOMAIN store.write_buffer |->
                                   [d \in DOMAIN store.write_buffer[t] |->
                                      store.write_buffer[t][d].positions]],
                                PostingKeys(store.write_buffer))
                 ELSE ref
       /\ UNCHANGED <<file, now, saved, events, others>>

Next ==
    \/ Tick
    \/ \E t \in Terms, d \in Docs, p \in Positions : AddTerm(t, d, p)
    \/ \E tdp \in BatchInputs : BatchAddTerms(tdp)
    \/ \E t \in Terms : GetTermInfo(t)
    \/ \E t \in Terms : GetDocFrequency(t)
    \/ \E t \in Terms, d \in Docs : GetTermPositions(t, d)
    \/ \E ts \in SeqsUpTo(Terms, MaxTerms) : GetDocsWithTerms(ts)

Spec == Init /\ [][Next]_vars

(* SpecPersist: the same caller, who also saves the store to index_path    *)
(* and loads it back.                                                      *)

NextPersist ==
    \/ Tick
    \/ \E t \in Terms, d \in Docs, p \in Positions : AddTerm(t, d, p)
    \/ \E tdp \in BatchInputs : BatchAddTerms(tdp)
    \/ \E t \in Terms : GetTermInfo(t)
    \/ SaveIndex
    \/ LoadIndex

SpecPersist == Init /\ [][NextPersist]_vars

----------------------------------------------------------------------------
(* Claims about the store.                                                 *)

\* C1: after any public read of the store returns, the write buffer holds
\* no entry for any term named in that read.
C1_ReadLeavesNoBufferedTerm ==
    last.op \in ReadOps =>
        \A i \in 1..Len(last.terms) :
            last.terms[i] \notin DOMAIN store.write_buffer

\* C2: every read returns what the same read returns on the reference
\* store, in which each add_term wrote directly into the main index.
C2_ReadsMatchDirectWrites ==
    /\ last.op = "get_term_info" =>
            last.ret = RefTermInfo(ref, last.terms[1])
    /\ last.op = "get_doc_frequency" =>
            last.ret = RefDocFrequency(ref, last.terms[1])
    /\ last.op = "get_term_positions" =>
            last.ret = RefTermPositions(ref, last.terms[1], last.doc_id)
    /\ last.op = "get_docs_with_terms" =>
            last.ret = RefDocsWithTerms(ref, last.terms)

\* a read of a pair whose two events reached the main index in two flushes
C2_Witness ==
    /\ last.op = "get_term_positions"
    /\ last.ret = <<1, 0>>
    /\ store.last_flush_time > 0

TfIsPositionCount(m) ==
    \A pr \in PostingKeys(m) :
        m[pr[1]][pr[2]].tf = Len(m[pr[1]][pr[2]].positions)

\* C4: every posting of the main index and every entry of the write buffer
\* has tf equal to the length of its positions sequence.
C4_TfEqualsPositionCount ==
    TfIsPositionCount(store.index) /\ TfIsPositionCount(store.write_buffer)

\* a pair with a flushed posting in the main index and a later event in the
\* write buffer
C4_Witness ==
    \E pr \in PostingKeys(store.index) \cap PostingKeys(store.write_buffer) :
        /\ store.index[pr[1]][pr[2]].tf >= 1
        /\ store.write_buffer[pr[1]][pr[2]].tf >= 1

\* C10: the vocabulary set equals the set of top-level keys of the main
\* index.
C10_VocabularyIsIndexKeys == store.vocabulary = DOMAIN store.index

\* a store that was loaded from a saved index and has flushed a new term
C10_Witness ==
    /\ file.kind = "pickle"
    /\ file.vocabulary # {}
    /\ store.vocabulary # file.vocabulary
    /\ events = MaxEvents

----------------------------------------------------------------------------
(* The tokenizer.  A text is the sequence of its lower-cased words.  The   *)
(* terms a and b stand for two words of at least min_token_length          *)
(* characters that are not stopwords; ShortWords are the words the length  *)
(* filter drops.                                                           *)

STOP_WORDS == {"the"}
ShortWords == {"x"}
Words == Terms \cup STOP_WORDS \cup ShortWords

LongEnough(w) == w \notin ShortWords
NotStopWord(w) == w \notin STOP_WORDS

\* Tokenizer.tokenize, lines 90-97
tokenize(text, remove_stopwords) ==
    LET tokens == SelectSeq(text, LongEnough)
    IN IF remove_stopwords THEN SelectSeq(tokens, NotStopWord) ELSE tokens

----------------------------------------------------------------------------
(* The indexer.                                                            *)

\* config.BATCH_SIZE (1000 in config.py), scaled to the model
batch_size == 2
\* the texts of single-document corpora have at most MaxDocLen words
MaxDocLen == 2

\* config.REMOVE_STOPWORDS
REMOVE_STOPWORDS == TRUE

\* the order in which a documents mapping is iterated
DocOrder == <<"d1", "d2", "d3">>

RECURSIVE TermOrder(_, _)
\* the keys of term_positions, in the order index_document inserts them
TermOrder(tokens, seen) ==
    IF tokens = <<>> THEN <<>>
    ELSE IF Head(tokens) \in seen THEN TermOrder(Tail(tokens), seen)
         ELSE <<Head(tokens)>>
              \o TermOrder(Tail(tokens), seen \cup {Head(tokens)})

\* index_document, lines 35-36: the positions recorded for one term
PositionsOf(tokens, term) ==
    LET at(p) == tokens[p + 1] = term
    IN SelectSeq([i \in 1..Len(tokens) |-> i - 1], at)

\* an index_document that records each term once, at its first position
index_document_first_only(content) ==
    LET tokens == tokenize(content, REMOVE_STOPWORDS)
        order == TermOrder(tokens, {})
    IN [tokens |-> tokens,
        term_positions |->
            [k \in 1..Len(order) |->
                <<order[k], <<Head(PositionsOf(tokens, order[k]))>> >>]]

\* index_document
index_document(content) ==
    LET tokens == tokenize(content, REMOVE_STOPWORDS)
        order == TermOrder(tokens, {})
    IN [tokens |-> tokens,
        term_positions |->
            [k \in 1..Len(order) |->
                <<order[k], PositionsOf(tokens, order[k])>>]]

RECURSIVE TermEvents(_)
\* build_index, lines 93-95: the add_term calls made for one document, as
\* <<term, position>> pairs in call order
TermEvents(term_positions) ==
    IF term_positions = <<>> THEN <<>>
    ELSE LET term == Head(term_positions)[1]
             positions == Head(term_positions)[2]
         IN [k \in 1..Len(positions) |-> <<term, positions[k]>>]
            \o TermEvents(Tail(term_positions))

RECURSIVE AddEvents(_, _, _, _)
\* build_index, lines 93-95
AddEvents(s, doc_id, evs, time) ==
    IF evs = <<>> THEN s
    ELSE AddEvents(add_term(s, Head(evs)[1], doc_id, Head(evs)[2], time),
                   doc_id, Tail(evs), time)

RECURSIVE MergeResults(_, _, _, _)
\* build_index, lines 85-95: the results of one batch enter the store
MergeResults(s, documents, batch, time) ==
    IF batch = <<>> THEN s
    ELSE LET doc_id == Head(batch)
             result == index_document(documents[doc_id])
             s1 == update_doc_length(s, doc_id, Len(result.tokens))
         IN MergeResults(AddEvents(s1, doc_id,
                                   TermEvents(result.term_positions), time),
                         documents, Tail(batch), time)

\* build_index, lines 66-72: the batches, as sequences of doc ids
doc_batches(documents) ==
    LET InCorpus(d) == d \in DOMAIN documents
        ids == SelectSeq(DocOrder, InCorpus)
        n == Len(ids)
        count == (n + batch_size - 1) \div batch_size
    IN [k \in 1..count |->
          SubSeq(ids, (k - 1) * batch_size + 1,
                 IF k * batch_size < n THEN k * batch_size ELSE n)]

\* a progress count that is overwritten instead of accumulated
indexed_docs_last_batch(indexed_docs, batch) == Len(batch)

\* build_index, line 99
indexed_docs_after(indexed_docs, batch) == indexed_docs + Len(batch)

RECURSIVE RefAddEvents(_, _, _)
RefAddEvents(r, doc_id, evs) ==
    IF evs = <<>> THEN r
    ELSE RefAddEvents(RefAdd(r, Head(evs)[1], doc_id, Head(evs)[2]),
                      doc_id, Tail(evs))

RECURSIVE RefMerge(_, _, _)
\* the reference store after the tokens of the batch's documents were
\* written directly, one event per token
RefMerge(r, documents, batch) ==
    IF batch = <<>> THEN r
    ELSE RefMerge(RefAddEvents(r, Head(batch),
                      TermEvents(index_document(documents[Head(batch)])
                                     .term_positions)),
                  documents, Tail(batch))

\* the texts of the documents of the corpora with several documents
SampleTexts == {<<>>, <<"a">>, <<"the", "b">>, <<"a", "b", "a">>}

\* the documents mappings build_index is called with
Corpora ==
    {("d1" :> text) : text \in SeqsUpTo(Words, MaxDocLen)}
    \cup UNION {[{DocOrder[i] : i \in 1..k} -> SampleTexts] :
                   k \in 0..Len(DocOrder)}

(* SpecBuild: build_index(documents, save) on a fresh store, the batches   *)
(* completing in any order, then a new process that loads the index.       *)

InitBuild ==
    /\ store = NewStore(0)
    /\ file = NoFile
    /\ now = 0
    /\ last = NoCall
    /\ ref = EmptyMap
    /\ saved = NoFile
    /\ events = 0
    /\ conc = NoThreads
    /\ scorer = NoScorer
    /\ \E documents \in Corpora, save \in BOOLEAN :
           indexer = [pc |-> "merging",
                      documents |-> documents,
                      save |-> save,
                      pending |-> DOMAIN doc_batches(documents),
                      order |-> <<>>,
                      indexed_docs |-> 0,
                      doc_count |-> 0]

\* build_index, lines 81-101: as_completed hands over batch i
MergeBatch(i) ==
    /\ indexer.pc = "merging"
    /\ i \in indexer.pending
    /\ LET batch == doc_batches(indexer.documents)[i]
           indexed_docs == indexed_docs_after(indexer.indexed_docs, batch)
           s1 == MergeResults(store, indexer.documents, batch, now)
       IN /\ store' = [s1 EXCEPT !.total_docs = indexed_docs]
          /\ indexer' = [indexer EXCEPT !.pending = @ \ {i},
                                        !.order = Append(@, i),
                                        !.indexed_docs = indexed_docs,
                                        !.doc_count = indexed_docs]
          /\ ref' = RefMerge(ref, indexer.documents, batch)
    /\ last' = NoCall
    /\ UNCHANGED <<file, now, saved, events, conc, scorer>>

\* build_index, lines 106-112: every batch is merged
FinishBuild ==
    /\ indexer.pc = "merging"
    /\ indexer.pending = {}
    /\ indexer' = [indexer EXCEPT !.pc = "done"]
    /\ IF indexer.save
       THEN LET r == save_index(store, now)
            IN /\ store' = r.store
               /\ file' = r.data
               /\ saved' = [index |-> ref,
                            doc_lengths |-> store.doc_lengths,
                            total_docs |-> store.total_docs,
                            vocabulary |-> DOMAIN ref,
                            buffered |-> store.buffer_size]
               /\ last' = [op |-> "save_index"]
       ELSE /\ UNCHANGED <<store, file, saved>>
            /\ last' = NoCall
    /\ UNCHANGED <<now, ref, events, conc, scorer>>

\* main.py search, lines 116-117: a new IndexStorage on the same path loads
Reopen ==
    /\ indexer.pc = "done"
    /\ indexer' = [indexer EXCEPT !.pc = "loaded"]
    /\ LET r == load_index(NewStore(now), file)
       IN /\ store' = r.store
          /\ last' = [op |-> "load_index", ret |-> r.ret]
          /\ ref' = IF r.ret THEN r.store.index ELSE EmptyMap
    /\ UNCHANGED <<file, now, saved, events, conc, scorer>>

NextBuild ==
    \/ Tick
    \/ \E i \in 1..Len(DocOrder) : MergeBatch(i)
    \/ FinishBuild
    \/ Reopen

SpecBuild == InitBuild /\ [][NextBuild]_vars

----------------------------------------------------------------------------
(* Claims about the build.                                                 *)

RECURSIVE SumTf(_, _, _)
\* the sum of tf over the postings of doc_id under the given terms
SumTf(index, doc_id, terms) ==
    IF terms = {} THEN 0
    ELSE LET t == CHOOSE x \in terms : TRUE
         IN (IF doc_id \in DOMAIN index[t] THEN index[t][doc_id].tf ELSE 0)
            + SumTf(index, doc_id, terms \ {t})

C9_TotalDocsIsDocLengthCount ==
    indexer.pc = "done" =>
        store.total_docs = Cardinality(DOMAIN store.doc_lengths)

\* a finished build of three documents, merged as two batches
C9_Witness ==
    /\ indexer.pc = "done"
    /\ Len(doc_batches(indexer.documents)) = 2
    /\ store.total_docs = 3

\* C8: save followed by load into a store on the same path restores index,
\* doc_lengths, total_docs and vocabulary as the saving store held them,
\* the events still buffered when save was called included.
C8_SaveLoadRoundTrip ==
    (indexer.pc = "loaded" /\ indexer.save) =>
        /\ last.op = "load_index"
        /\ last.ret
        /\ store.index = saved.index
        /\ store.doc_lengths = saved.doc_lengths
        /\ store.total_docs = saved.total_docs
        /\ store.vocabulary = saved.vocabulary

\* a load of an index of three documents that was saved with events in the
\* write buffer
C8_Witness ==
    /\ indexer.pc = "loaded"
    /\ last.op = "load_index"
    /\ last.ret
    /\ saved.buffered > 0
    /\ Cardinality(DOMAIN store.doc_lengths) = 3
    /\ store.index # EmptyMap

----------------------------------------------------------------------------
(* SpecConc: several threads share one IndexStorage.  What a method does   *)
(* inside "with self._buffer_lock" is one step; what it does after it has  *)
(* released the lock is another step, and other threads run in between.    *)

Threads == {"t1", "t2"}

InitConc ==
    /\ store = NewStore(0)
    /\ file = NoFile
    /\ now = 0
    /\ last = NoCall
    /\ ref = EmptyMap
    /\ saved = NoFile
    /\ events = 0
    /\ indexer = NoBuild
    /\ conc = [pc |-> [th \in Threads |-> "idle"]]
    /\ scorer = NoScorer

\* add_term: the whole body runs under the lock
ThreadAddTerm(th, term, doc_id, position) ==
    /\ conc.pc[th] = "idle"
    /\ events < MaxEvents
    /\ store' = add_term(store, term, doc_id, position, now)
    /\ ref' = RefAdd(ref, term, doc_id, position)
    /\ events' = events + 1
    /\ last' = [op |-> "add_term"]
    /\ UNCHANGED <<file, now, saved, indexer, conc, scorer>>

\* save_index, lines 172-174: the flush under the lock
ThreadSaveFlush(th) ==
    /\ conc.pc[th] = "idle"
    /\ store' = save_index(store, now).store
    /\ conc' = [conc EXCEPT !.pc[th] = "save_dump"]
    /\ last' = NoCall
    /\ UNCHANGED <<file, now, ref, saved, events, indexer, scorer>>

\* save_index, lines 177-194: the serialization, the lock released
ThreadSaveDump(th) ==
    /\ conc.pc[th] = "save_dump"
    /\ file' = PickleDump(store)
    /\ saved' = [index |-> ref,
                 doc_lengths |-> store.doc_lengths,
                 total_docs |-> store.total_docs,
                 vocabulary |-> DOMAIN ref,
                 buffered |-> store.buffer_size]
    /\ conc' = [conc EXCEPT !.pc[th] = "idle"]
    /\ last' = [op |-> "pickle.dump", write_buffer |-> store.write_buffer]
    /\ UNCHANGED <<store, now, ref, events, indexer, scorer>>

NextConc ==
    \/ Tick
    \/ \E th \in Threads, t \in Terms, d \in Docs, p \in Positions :
           ThreadAddTerm(th, t, d, p)
    \/ \E th \in Threads : ThreadSaveFlush(th)
    \/ \E th \in Threads : ThreadSaveDump(th)

SpecConc == InitConc /\ [][NextConc]_vars

\* C7: at the point where save serializes the index the write buffer is
\* empty, and no position-event the store accepted before the
\* serialization is missing from the serialized index.
C7_SerializedWithEmptyBuffer ==
    last.op = "pickle.dump" =>
        /\ last.write_buffer = EmptyMap
        /\ PickleLoadIndex(file) = saved.index

----------------------------------------------------------------------------
(* The scorer, the query parser and the retriever.  A score is a fixed-    *)
(* point number: the integer x stands for x / 1000000.  A tf score is kept *)
(* as an exact fraction until it is multiplied with the idf.               *)
(*                                                                         *)
(* A local variable of the code that holds a computed value is bound as    *)
(* x \in {value}, which computes the value once: The({e(x) : x \in {v}})   *)
(* is e(v).                                                                *)

\* the element of a set of one element
The(S) == CHOOSE x \in S : TRUE

\* config.PHRASE_BOOST
PHRASE_BOOST == 2
\* config.K1 = 1.5 and config.B = 0.75
K1 == [num |-> 3, den |-> 2]
B == [num |-> 3, den |-> 4]

\* a phrase has at most MaxPhraseLen words
MaxPhraseLen == 2

\* <<num, den, math.log(num / den)>>, the logarithm in millionths
LnTable ==
    {<<2, 3, -405466>>, <<2, 5, -916291>>, <<2, 7, -1252763>>,
     <<4, 3, 287682>>, <<4, 5, -223144>>, <<4, 7, -559616>>,
     <<6, 3, 693147>>, <<6, 5, 182321>>, <<6, 7, -154151>>,
     <<8, 3, 980829>>, <<8, 5, 470003>>, <<8, 7, 133531>>}

\* math.log(num / den)
Ln(num, den) == (CHOOSE e \in LnTable : e[1] = num /\ e[2] = den)[3]

RECURSIVE SumLengths(_, _)
\* sum(doc_lengths.values())
SumLengths(doc_lengths, docs) ==
    IF docs = {} THEN 0
    ELSE LET d == CHOOSE x \in docs : TRUE
         IN doc_lengths[d] + SumLengths(doc_lengths, docs \ {d})

\* TfIdfScorer.__init__: avg_doc_length is fixed at construction
NewScorer(s) ==
    [constructed |-> TRUE,
     k1 |-> K1,
     b |-> B,
     phrase_boost |-> PHRASE_BOOST,
     avg_doc_length |->
         IF DOMAIN s.doc_lengths # {}
         THEN [num |-> SumLengths(s.doc_lengths, DOMAIN s.doc_lengths),
               den |-> Cardinality(DOMAIN s.doc_lengths)]
         ELSE [num |-> 0, den |-> 1]]

\* the store the get_* calls of a scoring leave behind: the first of them
\* that finds its term in the write buffer flushes, and a flush changes
\* only the postings of buffered terms
ReadStore(s, terms, time) ==
    IF \E t \in terms : t \in DOMAIN s.write_buffer
    THEN flush_buffer(s, time) ELSE s

\* _calc_idf
calc_idf(s, term, time) ==
    LET df == get_doc_frequency(s, term, time).ret
        n == s.total_docs
    IN IF df = 0 THEN 0 ELSE Ln(2 * (n - df) + 1 + 2 * df + 1, 2 * df + 1)

\* _calc_tf_score: the fraction numerator / denominator; error stands for
\* the ZeroDivisionError of doc_len / avg_doc_length
calc_tf_score(sc, s, term, doc_id, time) ==
    LET term_info == get_term_info(s, term, time).ret
    IN IF term_info = EmptyMap \/ doc_id \notin DOMAIN term_info
       THEN [error |-> FALSE, num |-> 0, den |-> 1]
       ELSE LET tf == term_info[doc_id].tf
                avg == sc.avg_doc_length
                doc_len == IF doc_id \in DOMAIN s.doc_lengths
                           THEN [num |-> s.doc_lengths[doc_id], den |-> 1]
                           ELSE avg
                \* doc_len / avg_doc_length = rn / rd
                rn == doc_len.num * avg.den
                rd == doc_len.den * avg.num
                \* numerator / denominator, both scaled by k1.den * b.den * rd
                numerator == tf * (sc.k1.num + sc.k1.den) * sc.b.den * rd
                denominator ==
                    tf * sc.k1.den * sc.b.den * rd
                    + sc.k1.num * ((sc.b.den - sc.b.num) * rd + sc.b.num * rn)
            IN IF avg.num = 0
               THEN [error |-> TRUE, num |-> 0, den |-> 1]
               ELSE IF denominator = 0
                    THEN [error |-> FALSE, num |-> 0, den |-> 1]
                    ELSE [error |-> FALSE, num |-> numerator,
                          den |-> denominator]

\* score_term
score_term(sc, s, term, doc_id, time) ==
    The({[error |-> tf_score.error,
          score |-> IF tf_score.error THEN 0
                    ELSE (tf_score.num * idf) \div tf_score.den] :
             tf_score \in {calc_tf_score(sc, s, term, doc_id, time)},
             idf \in {calc_idf(s, term, time)}})

RECURSIVE SumTermScores(_, _, _, _, _)
\* score_document, lines 110-111 and 120-121: the sum of score_term
SumTermScores(sc, s, terms, doc_id, time) ==
    IF terms = <<>> THEN [error |-> FALSE, score |-> 0]
    ELSE The({[error |-> h.error \/ r.error, score |-> h.score + r.score] :
                  h \in {score_term(sc, s, Head(terms), doc_id, time)},
                  r \in {SumTermScores(sc, s, Tail(terms), doc_id, time)}})

\* query_parser.is_exact_match
is_exact_match(doc_positions, phrase_length) ==
    IF Len(doc_positions) < phrase_length THEN FALSE
    ELSE \E sorted \in {SortSeq(doc_positions, LAMBDA x, y : x < y)} :
             \E i \in 0..(Len(sorted) - phrase_length) :
                 sorted[i + phrase_length] - sorted[i + 1] = phrase_length - 1

RECURSIVE PhrasePositions(_, _, _, _)
\* score_document, lines 127-134: the loop "for i in range(1, len(phrase))"
\* from index i on
PhrasePositions(s, phrase, doc_id, i) ==
    IF i >= Len(phrase) THEN <<>>
    ELSE LET term == phrase[i + 1]
             pos_with_offset ==
                 IF term \in DOMAIN s.index /\ doc_id \in DOMAIN s.index[term]
                 THEN LET ps == s.index[term][doc_id].positions
                      IN [k \in 1..Len(ps) |-> ps[k] + i]
                 ELSE <<>>
         IN pos_with_offset \o PhrasePositions(s, phrase, doc_id, i + 1)

\* score_document, lines 124-138: whether phrase_score is multiplied
phrase_boosted(s, phrase, doc_id) ==
    LET first_term == phrase[1]
    IN /\ first_term \in DOMAIN s.index
       /\ doc_id \in DOMAIN s.index[first_term]
       /\ is_exact_match(PhrasePositions(s, phrase, doc_id, 1), Len(phrase))

RECURSIVE SumPhraseScores(_, _, _, _, _)
\* score_document, lines 113-140: the loop over the phrases
SumPhraseScores(sc, s, phrases, doc_id, time) ==
    IF phrases = <<>> THEN [error |-> FALSE, score |-> 0]
    ELSE LET phrase == Head(phrases)
         IN IF phrase = <<>>
            THEN SumPhraseScores(sc, s, Tail(phrases), doc_id, time)
            ELSE The({[error |-> base.error \/ r.error,
                       score |-> (IF phrase_boosted(s, phrase, doc_id)
                                  THEN base.score * sc.phrase_boost
                                  ELSE base.score)
                                 + r.score] :
                          base \in {SumTermScores(sc, s, phrase, doc_id,
                                                  time)},
                          r \in {SumPhraseScores(sc, s, Tail(phrases),
                                                 doc_id, time)}})

\* the terms of a parsed query
QueryTerms(terms, phrases) ==
    {terms[i] : i \in 1..Len(terms)}
    \cup UNION {{phrases[k][i] : i \in 1..Len(phrases[k])} :
                    k \in 1..Len(phrases)}

\* score_document
score_document(sc, s, terms, phrases, doc_id, time) ==
    The({The({[store |-> s1,
               ret |-> [error |-> free.error \/ phr.error,
                        score |-> free.score + phr.score]] :
                  free \in {SumTermScores(sc, s1, terms, doc_id, time)},
                  phr \in {SumPhraseScores(sc, s1, phrases, doc_id, time)}}) :
             s1 \in {ReadStore(s, QueryTerms(terms, phrases), time)}})

\* Tokenizer.tokenize_phrase: the stopwords stay
tokenize_phrase(phrase) == tokenize(phrase, FALSE)

\* Tokenizer.tokenize_query
tokenize_query(query) == tokenize(query, REMOVE_STOPWORDS)

(* A query text is the sequence of its spans; a span is the words between  *)
(* a pair of double quotes (quoted) or a stretch of words outside quotes.  *)

RECURSIVE PhraseTokens(_)
\* parse, lines 22-26
PhraseTokens(query_text) ==
    IF query_text = <<>> THEN <<>>
    ELSE LET span == Head(query_text)
         IN (IF span.quoted /\ span.words # <<>>
             THEN <<tokenize_phrase(span.words)>> ELSE <<>>)
            \o PhraseTokens(Tail(query_text))

RECURSIVE FreeText(_)
\* parse, line 29
FreeText(query_text) ==
    IF query_text = <<>> THEN <<>>
    ELSE (IF Head(query_text).quoted THEN <<>> ELSE Head(query_text).words)
         \o FreeText(Tail(query_text))

\* QueryParser.parse
parse(query_text) ==
    IF query_text = <<>> THEN [terms |-> <<>>, phrases |-> <<>>]
    ELSE [terms |-> tokenize_query(FreeText(query_text)),
          phrases |-> PhraseTokens(query_text)]

\* search, lines 56-76: the union of the posting lists of the query's terms
candidate_docs(s, terms, phrases, time) ==
    LET s1 == ReadStore(s, QueryTerms(terms, phrases), time)
    IN UNION {DOMAIN get_term_info(s1, t, time).ret :
                  t \in QueryTerms(terms, phrases)}

\* the orders in which the elements of a set can be iterated
Orders(S) ==
    UNION {{f \in [1..Cardinality(T) -> T] :
               \A i, j \in DOMAIN f : i # j => f[i] # f[j]} : T \in {S}}

\* list.sort(key=score, reverse=True) is stable: x goes behind the entries
\* that score at least as much
InsertByScore(x, sorted) ==
    LET k == Cardinality({i \in 1..Len(sorted) : sorted[i].score >= x.score})
    IN SubSeq(sorted, 1, k) \o <<x>> \o SubSeq(sorted, k + 1, Len(sorted))

RECURSIVE SortByScore(_)
\* search, line 87
SortByScore(doc_scores) ==
    IF doc_scores = <<>> THEN <<>>
    ELSE The({InsertByScore(x, sorted) :
                  x \in {doc_scores[Len(doc_scores)]},
                  sorted \in {SortByScore(SubSeq(doc_scores, 1,
                                                 Len(doc_scores) - 1))}})

RECURSIVE ScoreCandidates(_, _, _, _, _, _)
\* search, lines 80-82: score_document for each candidate, in iteration
\* order
ScoreCandidates(sc, s, terms, phrases, order, time) ==
    IF order = <<>> THEN <<>>
    ELSE <<[doc_id |-> Head(order),
            r |-> score_document(sc, s, terms, phrases, Head(order),
                                 time).ret]>>
         \o ScoreCandidates(sc, s, terms, phrases, Tail(order), time)

RECURSIVE PositiveScores(_)
\* search, lines 83-84: only a score > 0 enters doc_scores
PositiveScores(scored) ==
    IF scored = <<>> THEN <<>>
    ELSE (IF Head(scored).r.score > 0
          THEN <<[doc_id |-> Head(scored).doc_id,
                  score |-> Head(scored).r.score]>>
          ELSE <<>>)
         \o PositiveScores(Tail(scored))

\* a truncation that keeps the last top_n entries
TopResultsLast(sorted, top_n) ==
    SubSeq(sorted,
           IF top_n < Len(sorted) THEN Len(sorted) - top_n + 1 ELSE 1,
           Len(sorted))

\* search, line 90: doc_scores[:top_n]
TopResults(sorted, top_n) ==
    SubSeq(sorted, 1, IF top_n < Len(sorted) THEN top_n ELSE Len(sorted))

\* search, lines 78-90, from the scores of the candidates on
RankScored(s1, scored, top_n) ==
    IF \E k \in 1..Len(scored) : scored[k].r.error
    THEN [store |-> s1, ret |-> [error |-> TRUE, results |-> <<>>]]
    ELSE [store |-> s1,
          ret |-> [error |-> FALSE,
                   results |->
                       The({TopResults(sorted, top_n) :
                               sorted \in {SortByScore(
                                              PositiveScores(scored))}})]]

\* search, lines 50-90, from the parsed query on
SearchParsed(sc, s, terms, phrases, top_n, order, time) ==
    IF terms = <<>> /\ phrases = <<>>
    THEN [store |-> s, ret |-> [error |-> FALSE, results |-> <<>>]]
    ELSE The({RankScored(s1, scored, top_n) :
                 s1 \in {ReadStore(s, QueryTerms(terms, phrases), time)},
                 scored \in {ScoreCandidates(sc, s, terms, phrases, order,
                                             time)}})

\* Retriever.search without a snippet generator; order is the order in
\* which the set candidate_docs is iterated
search(sc, s, query_text, top_n, order, time) ==
    The({SearchParsed(sc, s, parsed_query.terms, parsed_query.phrases,
                      top_n, order, time) :
            parsed_query \in {parse(query_text)}})

RECURSIVE MergeAll(_, _, _, _, _)
\* build_index, lines 81-101, the batches completing in submission order
MergeAll(s, documents, batches, indexed_docs, time) ==
    IF batches = <<>> THEN s
    ELSE LET n == indexed_docs_after(indexed_docs, Head(batches))
             s1 == MergeResults(s, documents, Head(batches), time)
         IN MergeAll([s1 EXCEPT !.total_docs = n], documents, Tail(batches),
                     n, time)

\* build_index(documents) on a fresh store, saving
build_index(documents, time) ==
    LET merged == MergeAll(NewStore(time), documents, doc_batches(documents),
                           0, time)
    IN [merged |-> merged, saved |-> save_index(merged, time)]

\* the corpus of the phrase probe example
ProbeCorpus == "d1" :> <<"a", "b", "a", "b", "a">>

\* the two-document corpus of the phrase query example
NewYorkCorpus ==
    ("d1" :> <<"new", "york", "city">>) @@ ("d2" :> <<"new", "jersey">>)

\* the texts of the documents of the searched corpora with several documents
SearchTexts == {<<"a">>, <<"a", "b">>, <<"b", "b", "a">>}

\* the document ids
DocIds == {DocOrder[i] : i \in 1..Len(DocOrder)}

\* the corpora that are indexed and then searched: one document with any
\* short text, up to two documents with sample texts, three documents of
\* which two have the same text, and the two examples
SearchCorpora ==
    {("d1" :> text) : text \in SeqsUpTo(Terms, MaxDocLen + 1)}
    \cup UNION {[{DocOrder[i] : i \in 1..k} -> SearchTexts] : k \in 0..2}
    \cup {[d \in DocIds |-> IF d = x THEN <<"a", "b">> ELSE <<"a">>] :
              x \in DocIds}
    \cup {ProbeCorpus, NewYorkCorpus}

\* the words of the queries put to a corpus: the words of its texts, the
\* two terms and the stopwords
QueryWords(documents) ==
    Terms \cup STOP_WORDS
    \cup UNION {{documents[d][i] : i \in 1..Len(documents[d])} :
                    d \in DOMAIN documents}

\* the query texts search is called with
QueryTexts(words) ==
    {<<>>}
    \cup {<<[quoted |-> q, words |-> w]>> :
              q \in BOOLEAN, w \in SeqsUpTo(words, MaxPhraseLen)}
    \cup {<<[quoted |-> FALSE, words |-> <<t>>],
            [quoted |-> TRUE, words |-> w]>> :
              t \in Terms, w \in SeqsUpTo(Terms, MaxPhraseLen)}

\* the values of top_n search is called with
TopNs == {1, Len(DocOrder)}

(* SpecSearch: main.py search on an index that build_index built and saved: *)
(* a new store loads the index, a scorer is constructed on it, and the     *)
(* process answers one query and ends.                                     *)

InitSearch ==
    /\ \E documents \in SearchCorpora :
           \E built \in {build_index(documents, 0)} :
           \E loaded \in {load_index(NewStore(0), built.saved.data)} :
              /\ store = loaded.store
              /\ file = built.saved.data
              /\ ref = loaded.store.index
              /\ saved = [index |-> loaded.store.index,
                          doc_lengths |-> built.merged.doc_lengths,
                          total_docs |-> built.merged.total_docs,
                          vocabulary |-> DOMAIN loaded.store.index,
                          buffered |-> built.merged.buffer_size]
              /\ scorer = NewScorer(loaded.store)
              /\ indexer = [pc |-> "loaded",
                            documents |-> documents,
                            save |-> TRUE,
                            pending |-> {},
                            indexed_docs |-> Cardinality(DOMAIN documents),
                            doc_count |-> Cardinality(DOMAIN documents)]
    /\ now = 0
    /\ last = NoCall
    /\ events = 0
    /\ conc = NoThreads

\* the scorer is asked for the score of one document
ScoreDocument(terms, phrases, doc_id) ==
    /\ scorer.constructed
    /\ indexer.pc = "loaded"
    /\ indexer' = [indexer EXCEPT !.pc = "queried"]
    /\ \E r \in {score_document(scorer, store, terms, phrases, doc_id, now)} :
          /\ store' = r.store
          /\ last' = [op |-> "score_document", terms |-> terms,
                      phrases |-> phrases, doc_id |-> doc_id, ret |-> r.ret]
    /\ UNCHANGED <<file, now, ref, saved, events, conc, scorer>>

\* main.py search, line 156: the one retriever.search call of the process
Search(query_text, top_n, order) ==
    /\ scorer.constructed
    /\ indexer.pc = "loaded"
    /\ indexer' = [indexer EXCEPT !.pc = "queried"]
    /\ \E r \in {search(scorer, store, query_text, top_n, order, now)} :
          /\ store' = r.store
          /\ last' = [op |-> "search", query_text |-> query_text,
                      top_n |-> top_n, ret |-> r.ret]
    /\ UNCHANGED <<file, now, ref, saved, events, conc, scorer>>

NextSearch ==
    \/ \E terms \in SeqsUpTo(Terms, 1),
          phrases \in SeqsUpTo(SeqsUpTo(Terms, MaxPhraseLen), 1),
          doc_id \in DocIds :
           ScoreDocument(terms, phrases, doc_id)
    \/ \E query_text \in QueryTexts(QueryWords(indexer.documents)),
          top_n \in TopNs :
           \E parsed_query \in {parse(query_text)} :
           \E order \in Orders(candidate_docs(store, parsed_query.terms,
                                              parsed_query.phrases, now)) :
               Search(query_text, top_n, order)

SpecSearch == InitSearch /\ [][NextSearch]_vars

----------------------------------------------------------------------------
(* Claims about scoring and search.                                        *)

\* the positions of term in doc_id, as a set
PositionSet(index, term, doc_id) ==
    IF term \in DOMAIN index /\ doc_id \in DOMAIN index[term]
    THEN {index[term][doc_id].positions[k] :
              k \in 1..Len(index[term][doc_id].positions)}
    ELSE {}

\* there are positions p_0 .. p_{L-1} of the phrase's terms with
\* p_i = p_0 + i
ExactOccurrence(index, phrase, doc_id) ==
    \E p0 \in PositionSet(index, phrase[1], doc_id) :
        \A i \in 0..(Len(phrase) - 1) :
            p0 + i \in PositionSet(index, phrase[i + 1], doc_id)

RECURSIVE ExpectedPhraseScores(_, _)
\* the contributions of the phrases: PHRASE_BOOST * S where the phrase
\* occurs exactly, S elsewhere
ExpectedPhraseScores(phrases, doc_id) ==
    IF phrases = <<>> THEN 0
    ELSE LET phrase == Head(phrases)
             S == SumTermScores(scorer, store, phrase, doc_id, now).score
         IN (IF phrase = <<>> THEN 0
             ELSE IF ExactOccurrence(store.index, phrase, doc_id)
                  THEN PHRASE_BOOST * S ELSE S)
            + ExpectedPhraseScores(Tail(phrases), doc_id)

\* C5: score_document multiplies a phrase's summed per-term score S by
\* PHRASE_BOOST if and only if the phrase occurs in the document at
\* consecutive positions p_0, p_0 + 1, ..; otherwise the phrase
\* contributes exactly S.
C5_BoostIffExactOccurrence ==
    (last.op = "score_document" /\ ~last.ret.error) =>
        last.ret.score =
            SumTermScores(scorer, store, last.terms, last.doc_id, now).score
            + ExpectedPhraseScores(last.phrases, last.doc_id)

\* the quoted phrase query "new york"
NewYorkQuery == <<[quoted |-> TRUE, words |-> <<"new", "york">>]>>

\* C6: on the index of d1 = "new york city" and d2 = "new jersey" the
\* phrase query "new york" returns d1 only, and d1's score is the boosted
\* sum of the scores of its two terms.
C6_NewYorkPhraseQuery ==
    (/\ last.op = "search"
     /\ indexer.documents = NewYorkCorpus
     /\ last.query_text = NewYorkQuery) =>
        /\ ~last.ret.error
        /\ {last.ret.results[k].doc_id : k \in 1..Len(last.ret.results)}
               = {"d1"}
        /\ last.ret.results[1].score =
               PHRASE_BOOST
               * SumTermScores(scorer, store, <<"new", "york">>, "d1",
                               now).score

----------------------------------------------------------------------------
(* Claims about the order of positions.                                    *)

\* the positions m holds for (term, doc_id)
PositionsIn(m, term, doc_id) ==
    IF term \in DOMAIN m /\ doc_id \in DOMAIN m[term]
    THEN m[term][doc_id].positions ELSE <<>>

\* seq is strictly ascending with all its elements in 0..(n - 1)
AscendingBelow(seq, n) ==
    /\ \A i \in 1..Len(seq) : seq[i] >= 0 /\ seq[i] < n
    /\ \A i \in 1..(Len(seq) - 1) : seq[i] < seq[i + 1]

\* C11: for every (term, doc_id) the positions in the main index, followed
\* by those still buffered, are the positions passed to add_term for the
\* pair in call order, however many flushes happened between the calls; the
\* main index holds no other pair; and after a build the positions in the
\* main index are ascending within [0, doc_lengths[doc_id]).
C11_PositionsInCallOrder ==
    /\ \A pair \in PostingKeys(ref) :
           PositionsIn(store.index, pair[1], pair[2])
               \o PositionsIn(store.write_buffer, pair[1], pair[2])
           = ref[pair[1]][pair[2]].positions
    /\ PostingKeys(store.index) \subseteq PostingKeys(ref)
    /\ indexer.pc = "done" =>
           \A pair \in PostingKeys(store.index) :
               /\ pair[2] \in DOMAIN store.doc_lengths
               /\ AscendingBelow(store.index[pair[1]][pair[2]].positions,
                                 store.doc_lengths[pair[2]])

\* a finished build of the batch d1 = "a", d2 = "a b a": the buffer was
\* flushed after the event (a, d2, 0) and again after (a, d2, 2), (b, d2, 1)
C11_Witness ==
    /\ indexer.pc = "done"
    /\ DOMAIN indexer.documents = {"d1", "d2"}
    /\ indexer.documents["d1"] = <<"a">>
    /\ indexer.documents["d2"] = <<"a", "b", "a">>
    /\ PositionsIn(store.index, "a", "d2") = <<0, 2>>
    /\ store.write_buffer = EmptyMap

----------------------------------------------------------------------------
(* SpecLock: several threads share one IndexStorage; _buffer_lock and the  *)
(* statements of _flush_buffer are explicit.  The write buffer is touched  *)
(* only by a thread that holds the lock, so the buffer update of add_term  *)
(* is one step; the main index is read by the read methods after they have *)
(* released the lock, so each statement of _flush_buffer that changes the  *)
(* main index is a step of its own.  last holds the call that has just     *)
(* returned a value and is reset by the next step of any thread.           *)

\* a lock that never excludes anybody
lock_always_free(c) == TRUE

\* "with self._buffer_lock": the lock can be taken
lock_free(c) == c.lock = "none"

\* _flush_buffer, lines 66-68: the key of the term enters the main index
flush_term_key(s, term) ==
    IF term \in DOMAIN s.index THEN s
    ELSE [s EXCEPT !.index = [t \in DOMAIN s.index \cup {term} |->
                                 IF t = term THEN EmptyMap ELSE s.index[t]],
                   !.vocabulary = s.vocabulary \cup {term}]

\* _flush_buffer, lines 71-72: the empty posting of a new document
flush_new_posting(s, term, doc_id) ==
    IF doc_id \in DOMAIN s.index[term] THEN s
    ELSE [s EXCEPT !.index = PutPosting(s.index, term, doc_id, NewPosting)]

\* _flush_buffer, line 74: tf is summed; data is the buffered posting the
\* loop holds
flush_tf(s, term, doc_id, data) ==
    [s EXCEPT !.index[term][doc_id].tf = @ + data.tf]

\* _flush_buffer, line 75: the positions are extended
flush_positions(s, term, doc_id, data) ==
    [s EXCEPT !.index[term][doc_id].positions = @ \o data.positions]

\* _flush_buffer, lines 78-80
flush_clear(s, time) ==
    [s EXCEPT !.write_buffer = EmptyMap,
              !.buffer_size = 0,
              !.last_flush_time = time]

\* the pcs at which a thread is between two statements of _flush_buffer
FlushPcs == {"flush", "flush_posting", "flush_tf", "flush_positions"}

\* the read methods that take part
LockedReads == {"get_term_info", "get_term_positions"}

\* the threads that call the read methods; every thread calls add_term
Readers == {"t1"}

NoThreadCall == [op |-> "none"]

\* the loop of _flush_buffer holds no item
NoLoopItem == [term |-> "", doc_id |-> ""]

InitLock ==
    /\ store = NewStore(0)
    /\ file = NoFile
    /\ now = 0
    /\ last = NoCall
    /\ ref = EmptyMap
    /\ saved = NoFile
    /\ events = 0
    /\ indexer = NoBuild
    /\ scorer = NoScorer
    /\ conc = [pc |-> [th \in Threads |-> "idle"],
               lock |-> "none",
               call |-> [th \in Threads |-> NoThreadCall],
               merged |-> [th \in Threads |-> {}],
               cur |-> [th \in Threads |-> NoLoopItem]]

\* a flush starts or the lock is released: the thread's next pc, and the
\* holder of the lock
AfterLocked(th, flush, after) ==
    [conc EXCEPT !.pc[th] = IF flush THEN "flush" ELSE after,
                 !.lock = IF flush THEN th ELSE "none",
                 !.merged[th] = {}]

\* add_term, lines 52-61: the lock is taken, the event is buffered, and the
\* flush starts or the lock is released.  Every read call in progress has
\* seen one more state of the store.  The k-th call of a run passes the
\* position k - 1, which tells the events of a pair apart.
LockAddTerm(th, term, doc_id, position) ==
    /\ conc.pc[th] = "idle"
    /\ lock_free(conc)
    /\ events < MaxEvents
    /\ LET s1 == [store EXCEPT !.write_buffer =
                                   BufferAdd(store.write_buffer, term, doc_id,
                                             position),
                               !.buffer_size = store.buffer_size + 1]
           flush == \/ s1.buffer_size >= max_buffer_size
                    \/ now - s1.last_flush_time >= flush_interval
           r1 == RefAdd(ref, term, doc_id, position)
           c1 == AfterLocked(th, flush, "idle")
       IN /\ store' = s1
          /\ ref' = r1
          /\ conc' = [c1 EXCEPT
                 !.call = [t \in Threads |->
                     IF t = th THEN [op |-> "add_term"]
                     ELSE IF conc.call[t].op \in LockedReads
                          THEN [conc.call[t] EXCEPT !.refs = @ \cup {r1}]
                          ELSE conc.call[t]]]
    /\ events' = events + 1
    /\ last' = NoCall
    /\ UNCHANGED <<file, now, saved, indexer, scorer>>

\* get_term_info, lines 102-105: the locked part
LockGetTermInfo(th, term) ==
    /\ conc.pc[th] = "idle"
    /\ lock_free(conc)
    /\ conc' = [AfterLocked(th, term \in DOMAIN store.write_buffer,
                            "read_index")
                   EXCEPT !.call[th] = [op |-> "get_term_info",
                                        term |-> term, doc_id |-> "",
                                        refs |-> {ref}]]
    /\ last' = NoCall
    /\ UNCHANGED <<store, file, now, ref, saved, events, indexer, scorer>>

\* get_term_positions, lines 235-238: the locked part
LockGetTermPositions(th, term, doc_id) ==
    /\ conc.pc[th] = "idle"
    /\ lock_free(conc)
    /\ conc' = [AfterLocked(th,
                            /\ term \in DOMAIN store.write_buffer
                            /\ doc_id \in DOMAIN store.write_buffer[term],
                            "read_index")
                   EXCEPT !.call[th] = [op |-> "get_term_positions",
                                        term |-> term, doc_id |-> doc_id,
                                        refs |-> {ref}]]
    /\ last' = NoCall
    /\ UNCHANGED <<store, file, now, ref, saved, events, indexer, scorer>>

\* _flush_buffer, lines 65-68: the loop reaches a buffered posting; the
\* iteration order of the buffer is left open
FlushKey(th, pair) ==
    /\ conc.pc[th] = "flush"
    /\ pair \in PostingKeys(store.write_buffer) \ conc.merged[th]
    /\ store' = flush_term_key(store, pair[1])
    /\ conc' = [conc EXCEPT
           !.pc[th] = "flush_posting",
           !.cur[th] = [term |-> pair[1], doc_id |-> pair[2],
                        data |-> store.write_buffer[pair[1]][pair[2]]]]
    /\ last' = NoCall
    /\ UNCHANGED <<file, now, ref, saved, events, indexer, scorer>>

\* _flush_buffer, lines 71-72
FlushPosting(th) ==
    /\ conc.pc[th] = "flush_posting"
    /\ store' = flush_new_posting(store, conc.cur[th].term,
                                  conc.cur[th].doc_id)
    /\ conc' = [conc EXCEPT !.pc[th] = "flush_tf"]
    /\ last' = NoCall
    /\ UNCHANGED <<file, now, ref, saved, events, indexer, scorer>>

\* _flush_buffer, line 74
FlushTf(th) ==
    /\ conc.pc[th] = "flush_tf"
    /\ store' = flush_tf(store, conc.cur[th].term, conc.cur[th].doc_id,
                         conc.cur[th].data)
    /\ conc' = [conc EXCEPT !.pc[th] = "flush_positions"]
    /\ last' = NoCall
    /\ UNCHANGED <<file, now, ref, saved, events, indexer, scorer>>

\* _flush_buffer, line 75
FlushPositions(th) ==
    /\ conc.pc[th] = "flush_positions"
    /\ store' = flush_positions(store, conc.cur[th].term, conc.cur[th].doc_id,
                                conc.cur[th].data)
    /\ conc' = [conc EXCEPT
           !.pc[th] = "flush",
           !.merged[th] = @ \cup {<<conc.cur[th].term, conc.cur[th].doc_id>>},
           !.cur[th] = NoLoopItem]
    /\ last' = NoCall
    /\ UNCHANGED <<file, now, ref, saved, events, indexer, scorer>>

\* _flush_buffer, lines 78-80, and the end of the "with" block of the caller
FlushClear(th) ==
    /\ conc.pc[th] = "flush"
    /\ PostingKeys(store.write_buffer) \subseteq conc.merged[th]
    /\ store' = flush_clear(store, now)
    /\ conc' = [conc EXCEPT
           !.pc[th] = IF conc.call[th].op \in LockedReads
                      THEN "read_index" ELSE "idle",
           !.lock = IF conc.lock = th THEN "none" ELSE conc.lock,
           !.merged[th] = {}]
    /\ last' = NoCall
    /\ UNCHANGED <<file, now, ref, saved, events, indexer, scorer>>

\* get_term_info, lines 107-109, and get_term_positions, lines 240-242: the
\* main index is read without the lock
ReadIndex(th) ==
    /\ conc.pc[th] = "read_index"
    /\ LET c == conc.call[th]
           ret == IF c.op = "get_term_info"
                  THEN (IF c.term \in DOMAIN store.index
                        THEN store.index[c.term] ELSE EmptyMap)
                  ELSE PositionsIn(store.index, c.term, c.doc_id)
       IN last' = [op |-> c.op, term |-> c.term, doc_id |-> c.doc_id,
                   ret |-> ret, refs |-> c.refs]
    /\ conc' = [conc EXCEPT !.pc[th] = "idle", !.call[th] = NoThreadCall]
    /\ UNCHANGED <<store, file, now, ref, saved, events, indexer, scorer>>

NextLock ==
    \/ Tick
    \/ \E th \in Threads, t \in Terms, d \in Docs :
           LockAddTerm(th, t, d, events)
    \/ \E th \in Readers, t \in Terms : LockGetTermInfo(th, t)
    \/ \E th \in Readers, t \in Terms, d \in Docs :
           LockGetTermPositions(th, t, d)
    \/ \E th \in Threads, t \in Terms, d \in Docs : FlushKey(th, <<t, d>>)
    \/ \E th \in Threads : FlushPosting(th)
    \/ \E th \in Threads : FlushTf(th)
    \/ \E th \in Threads : FlushPositions(th)
    \/ \E th \in Threads : FlushClear(th)
    \/ \E th \in Threads : ReadIndex(th)

SpecLock == InitLock /\ [][NextLock]_vars

RECURSIVE EventsIn(_, _)
\* the number of position-events the postings of m hold under the pairs
EventsIn(m, pairs) ==
    IF pairs = {} THEN 0
    ELSE LET pr == CHOOSE x \in pairs : TRUE
         IN Len(m[pr[1]][pr[2]].positions) + EventsIn(m, pairs \ {pr})

\* no thread is between two statements of _flush_buffer
NoFlushInProgress == \A th \in Threads : conc.pc[th] \notin FlushPcs

\* C12: whenever no add_term call is in progress, the buffered count is the
\* number of events held in the buffer and, for every (term, doc_id), the
\* postings of the main index and of the buffer together hold one event per
\* add_term call made for the pair, with the positions passed; once the
\* buffer has been flushed the main index is the record of all calls.
C12_OneEventPerCall ==
    NoFlushInProgress =>
        /\ store.buffer_size
               = EventsIn(store.write_buffer, PostingKeys(store.write_buffer))
        /\ PostingKeys(store.index) \cup PostingKeys(store.write_buffer)
               = PostingKeys(ref)
        /\ \A pair \in PostingKeys(ref) :
               /\ PositionsIn(store.index, pair[1], pair[2])
                      \o PositionsIn(store.write_buffer, pair[1], pair[2])
                  = ref[pair[1]][pair[2]].positions
               /\ ref[pair[1]][pair[2]].tf
                  = (IF pair \in PostingKeys(store.index)
                     THEN store.index[pair[1]][pair[2]].tf ELSE 0)
                    + (IF pair \in PostingKeys(store.write_buffer)
                       THEN store.write_buffer[pair[1]][pair[2]].tf ELSE 0)
        /\ store.write_buffer = EmptyMap => store.index = ref

\* two add_term calls for the same pair, a flush between them (the first
\* event is in the main index while the second is buffered)
C12_Witness ==
    /\ NoFlushInProgress
    /\ events = MaxEvents
    /\ \E pair \in PostingKeys(store.index) :
           /\ pair \in PostingKeys(store.write_buffer)
           /\ store.index[pair[1]][pair[2]].tf = 1
           /\ ref[pair[1]][pair[2]].tf = 2

\* what a read returns on the store r
ReadView(op, r, term, doc_id) ==
    IF op = "get_term_info" THEN RefTermInfo(r, term)
    ELSE RefTermPositions(r, term, doc_id)

\* C13: with other threads calling add_term, a read returns what the store
\* would have returned at one instant between the read's call and its
\* return with no flush in progress: the events accepted before the call
\* began and at that instant, each with its tf and its positions.
C13_ReadsSeeNoHalfMergedState ==
    last.op \in LockedReads =>
        \E r \in last.refs :
            last.ret = ReadView(last.op, r, last.term, last.doc_id)

----------------------------------------------------------------------------
(* Claims about the automatic flush of the write calls.                    *)

\* the write calls of the store
WriteOps == {"add_term", "batch_add_terms"}

\* the step is a write call that has recorded at least one event
WriteReturns == events' > events /\ last'.op \in WriteOps

\* C14: when add_term or batch_add_terms returns, the buffered count is
\* below the buffer size and the time since the last flush is below the
\* flush interval (a call that ends its buffer update with either
\* threshold reached flushes the whole buffer before it returns).
C14_WriteReturnsFlushed ==
    [][WriteReturns =>
           /\ store'.buffer_size < max_buffer_size
           /\ now' - store'.last_flush_time < flush_interval]_vars

----------------------------------------------------------------------------
(* Claims about the end of the build.                                      *)

\* C15: when build(documents, save) has returned, with save true or false,
\* the write buffer is empty and the main index holds every position-event
\* of every document.
C15_BuildEndsFlushed ==
    indexer.pc = "done" =>
        /\ store.write_buffer = EmptyMap
        /\ store.buffer_size = 0
        /\ store.index = ref

----------------------------------------------------------------------------
(* SpecFail: build_index(documents, save) where the content of some        *)
(* documents is not a string, so that tokenize raises on them (text.lower, *)
(* tokenizer.py) and with it index_document and the _process_batch of      *)
(* their batch. indexer.not_str is the set of these documents.             *)

\* _process_batch, lines 43-48: it has no handler, so it raises if
\* index_document raises on one of the batch's documents
process_batch_raises(not_str, batch) ==
    \E k \in 1..Len(batch) : batch[k] \in not_str

\* the batches of the build whose _process_batch raises
FailedBatches ==
    {i \in DOMAIN doc_batches(indexer.documents) :
         process_batch_raises(indexer.not_str,
                              doc_batches(indexer.documents)[i])}

InitFail ==
    /\ store = NewStore(0)
    /\ file = NoFile
    /\ now = 0
    /\ last = NoCall
    /\ ref = EmptyMap
    /\ saved = NoFile
    /\ events = 0
    /\ conc = NoThreads
    /\ scorer = NoScorer
    /\ \E documents \in Corpora, save \in BOOLEAN :
       \E not_str \in {{}} \cup {{d} : d \in DOMAIN documents} :
           indexer = [pc |-> "merging",
                      documents |-> documents,
                      not_str |-> not_str,
                      save |-> save,
                      pending |-> DOMAIN doc_batches(documents),
                      order |-> <<>>,
                      indexed_docs |-> 0,
                      doc_count |-> 0]

\* build_index, lines 81-101: as_completed hands over batch i, whose
\* future holds a result
MergeCompleted(i) ==
    /\ i \notin FailedBatches
    /\ MergeBatch(i)

\* build_index, line 82: as_completed hands over batch i, whose future
\* holds an exception; future.result() raises it, no handler encloses the
\* call, and build_index ends with the exception
ResultRaises(i) ==
    /\ indexer.pc = "merging"
    /\ i \in indexer.pending
    /\ i \in FailedBatches
    /\ indexer' = [indexer EXCEPT !.pc = "raised"]
    /\ last' = [op |-> "build_index", raised |-> TRUE]
    /\ UNCHANGED <<store, file, now, ref, saved, events, conc, scorer>>

NextFail ==
    \/ \E i \in 1..Len(DocOrder) : MergeCompleted(i)
    \/ \E i \in 1..Len(DocOrder) : ResultRaises(i)
    \/ FinishBuild

SpecFail == InitFail /\ [][NextFail]_vars

\* the documents of the batches in is
RECURSIVE DocsOfBatches(_, _)
DocsOfBatches(batches, is) ==
    IF is = {} THEN {}
    ELSE LET i == CHOOSE x \in is : TRUE
         IN {batches[i][k] : k \in 1..Len(batches[i])}
            \cup DocsOfBatches(batches, is \ {i})

\* C16: when a build in which the processing of a batch fails has ended,
\* it has run to its end (it did not raise; with save, the file is
\* written; the buffer is flushed by the save), and every batch but the
\* failed ones is merged: doc_lengths holds exactly the documents of the
\* other batches and total_docs is set to their number.
C16_OnlyFailedBatchLost ==
    (indexer.pc \in {"done", "raised"} /\ FailedBatches # {}) =>
        /\ indexer.pc = "done"
        /\ indexer.pending \subseteq FailedBatches
        /\ DOMAIN store.doc_lengths
               = DocsOfBatches(doc_batches(indexer.documents),
                     DOMAIN doc_batches(indexer.documents) \ FailedBatches)
        /\ store.total_docs = Cardinality(DOMAIN store.doc_lengths)
        /\ indexer.save => (file # NoFile /\ store.write_buffer = EmptyMap)

----------------------------------------------------------------------------
(* SpecCorrupt: a caller who writes and saves, a file system in which the  *)
(* index file is removed, overwritten with bytes that are no pickle, or    *)
(* replaced by a pickled mapping that lacks keys, and loads.               *)

\* the index file is removed
RemoveFile ==
    /\ file # NoFile
    /\ file' = NoFile
    /\ last' = NoCall
    /\ UNCHANGED <<store, now, ref, saved, events, others>>

\* the index file is overwritten with bytes that are no pickle
Scramble ==
    /\ file # Undecodable
    /\ file' = Undecodable
    /\ last' = NoCall
    /\ UNCHANGED <<store, now, ref, saved, events, others>>

\* the saved mapping is replaced by one that lacks the keys in ks
DropKeys(ks) ==
    /\ file.kind = "pickle"
    /\ ks # {}
    /\ ks \subseteq file.keys
    /\ file' = [file EXCEPT !.keys = @ \ ks]
    /\ last' = NoCall
    /\ UNCHANGED <<store, now, ref, saved, events, others>>

\* load_index on whatever the file holds
LoadFile ==
    \E r \in {load_index(store, file)} :
        /\ store' = r.store
        /\ last' = IF r.raised
                   THEN [op |-> "load_index", raised |-> TRUE,
                         error |-> r.error]
                   ELSE [op |-> "load_index", raised |-> FALSE,
                         ret |-> r.ret]
        /\ UNCHANGED <<file, now, ref, saved, events, others>>

NextCorrupt ==
    \/ \E t \in Terms, d \in Docs, p \in Positions : AddTerm(t, d, p)
    \/ SaveIndex
    \/ RemoveFile
    \/ Scramble
    \/ \E ks \in SUBSET {PayloadKeys[k] : k \in DOMAIN PayloadKeys} :
           DropKeys(ks)
    \/ LoadFile

SpecCorrupt == Init /\ [][NextCorrupt]_vars

\* the file exists and its payload is malformed
Malformed(f) ==
    \/ f.kind = "undecodable"
    \/ /\ f.kind = "pickle"
       /\ \E k \in DOMAIN PayloadKeys : PayloadKeys[k] \notin f.keys

\* C17: load returns false, without raising, when the index file does not
\* exist; when the file exists and its payload is malformed (undecodable,
\* or lacking one of index, doc_lengths, total_docs, vocabulary), load
\* surfaces an error (CorruptIndex) and returns neither false nor true.
C17_LoadMissingOrCorrupt ==
    last.op = "load_index" =>
        /\ file = NoFile => (~last.raised /\ last.ret = FALSE)
        /\ Malformed(file) => last.raised

----------------------------------------------------------------------------
(* Claims about get_docs_with_terms.                                       *)

\* the terms of the list are all keys of the index
AllInIndex(index, terms) ==
    \A i \in 1..Len(terms) : terms[i] \in DOMAIN index

\* C18: whatever the store held, buffered entries included, when
\* get_docs_with_terms(T) was called, it returns the empty set if T is
\* empty or some term of T is not in the index, the keys of index[t] if
\* T = [t], and otherwise the intersection of the keys of index[t] over
\* the terms of T, where the index holds every event written so far.
C18_DocsWithTermsIsIntersection ==
    last.op = "get_docs_with_terms" =>
        /\ \A i \in 1..Len(last.terms) :
               /\ last.terms[i] \notin DOMAIN store.write_buffer
               /\ last.terms[i] \in DOMAIN ref
                      => /\ last.terms[i] \in DOMAIN store.index
                         /\ DOMAIN store.index[last.terms[i]]
                                = DOMAIN ref[last.terms[i]]
        /\ (last.terms = <<>> \/ ~AllInIndex(store.index, last.terms))
               => last.ret = {}
        /\ (Len(last.terms) = 1 /\ AllInIndex(store.index, last.terms))
               => last.ret = DOMAIN store.index[last.terms[1]]
        /\ (last.terms # <<>> /\ AllInIndex(store.index, last.terms))
               => last.ret
                  = {d \in Docs : \A i \in 1..Len(last.terms) :
                                      d \in DOMAIN store.index[last.terms[i]]}

\* a call with two different terms whose postings, written before the
\* call, have no document in common
C18_Witness ==
    /\ last.op = "get_docs_with_terms"
    /\ Len(last.terms) = 2
    /\ last.terms[1] # last.terms[2]
    /\ AllInIndex(store.index, last.terms)
    /\ DOMAIN store.index[last.terms[1]] # DOMAIN store.index[last.terms[2]]
    /\ last.ret = {}

----------------------------------------------------------------------------
(* Claims about the result list of search.                                 *)

\* the place of doc_id in the lexicographic order of the doc ids
DocRank(doc_id) == CHOOSE k \in DOMAIN DocOrder : DocOrder[k] = doc_id

\* C19: the results of search are sorted by score in descending order, and
\* two results of equal score appear in ascending lexicographic order of
\* doc_id (so the sequence does not depend on the iteration order of the
\* candidate set).
C19_SortedWithDocIdTieBreak ==
    (last.op = "search" /\ ~last.ret.error) =>
        \A i, j \in 1..Len(last.ret.results) :
            i < j =>
                \/ last.ret.results[i].score > last.ret.results[j].score
                \/ /\ last.ret.results[i].score = last.ret.results[j].score
                   /\ DocRank(last.ret.results[i].doc_id)
                          < DocRank(last.ret.results[j].doc_id)

\* the score score_document gives doc_id for the query of the last search
ScoreOf(parsed_query, doc_id) ==
    score_document(scorer, store, parsed_query.terms, parsed_query.phrases,
                   doc_id, now).ret.score

\* the documents in the posting list of a free term or of a term of a
\* phrase of the query
PostingDocs(parsed_query) ==
    UNION {DOMAIN store.index[t] :
              t \in QueryTerms(parsed_query.terms, parsed_query.phrases)
                       \cap DOMAIN store.index}

\* the doc ids of a result list
ResultDocs(results) == {results[i].doc_id : i \in 1..Len(results)}

\* C20: search(query, k) with k > 0 returns at most k results, each with a
\* score > 0 and each a document of the posting list of a free term or of
\* a phrase term of the query, and no candidate with a score > 0 that is
\* left out scores strictly more than a returned one.
C20_TopKOfPositiveCandidates ==
    (last.op = "search" /\ last.top_n > 0 /\ ~last.ret.error) =>
        \A parsed_query \in {parse(last.query_text)} :
        \A results \in {last.ret.results} :
            /\ Len(results) <= last.top_n
            /\ \A i \in 1..Len(results) :
                   /\ results[i].score > 0
                   /\ results[i].doc_id \in PostingDocs(parsed_query)
                   /\ results[i].score
                          = ScoreOf(parsed_query, results[i].doc_id)
            /\ \A d \in PostingDocs(parsed_query) \ ResultDocs(results) :
                   \A sc \in {ScoreOf(parsed_query, d)} :
                       sc > 0 => \A i \in 1..Len(results) :
                                     sc <= results[i].score

\* a search with k = 1 that returns one result and leaves out a candidate
\* with a smaller score > 0
C20_Witness ==
    /\ last.op = "search"
    /\ last.top_n = 1
    /\ ~last.ret.error
    /\ Len(last.ret.results) = 1
    /\ \E parsed_query \in {parse(last.query_text)} :
       \E d \in PostingDocs(parsed_query) \ ResultDocs(last.ret.results) :
       \E sc \in {ScoreOf(parsed_query, d)} :
           sc > 0 /\ sc < last.ret.results[1].score

----------------------------------------------------------------------------
(* SpecScore: a caller who writes into a store through add_term and        *)
(* update_doc_length, constructs a TfIdfScorer on it at some moment (the   *)
(* average document length is computed there, once), goes on writing, and  *)
(* then asks for one score or runs one search.                             *)

\* the single-word queries of the caller
ScoreQueries == {<<[quoted |-> FALSE, words |-> <<t>>]>> : t \in Terms}

InitScore ==
    /\ store = NewStore(0)
    /\ file = NoFile
    /\ now = 0
    /\ last = NoCall
    /\ ref = EmptyMap
    /\ saved = NoFile
    /\ events = 0
    /\ indexer = [pc |-> "writing"]
    /\ conc = NoThreads
    /\ scorer = NoScorer

\* add_term, while the caller is writing
WriteTerm(term, doc_id, position) ==
    /\ indexer.pc = "writing"
    /\ AddTerm(term, doc_id, position)

\* update_doc_length
UpdateDocLength(doc_id, length) ==
    /\ indexer.pc = "writing"
    /\ store' = update_doc_length(store, doc_id, length)
    /\ last' = [op |-> "update_doc_length"]
    /\ UNCHANGED <<file, now, ref, saved, events, others>>

\* TfIdfScorer.__init__ on the store as it is now
ConstructScorer ==
    /\ indexer.pc = "writing"
    /\ ~scorer.constructed
    /\ scorer' = NewScorer(store)
    /\ last' = NoCall
    /\ UNCHANGED <<store, file, now, ref, saved, events, indexer, conc>>

\* score_document for one free term; error stands for an exception that
\* leaves the call
ScoreTerm(term, doc_id) ==
    /\ indexer.pc = "writing"
    /\ scorer.constructed
    /\ indexer' = [indexer EXCEPT !.pc = "queried"]
    /\ \E r \in {score_document(scorer, store, <<term>>, <<>>, doc_id, now)} :
          /\ store' = r.store
          /\ last' = [op |-> "score_document", terms |-> <<term>>,
                      phrases |-> <<>>, doc_id |-> doc_id, ret |-> r.ret]
    /\ UNCHANGED <<file, now, ref, saved, events, conc, scorer>>

\* Retriever.search; error stands for an exception that leaves the call
SearchStore(query_text, top_n, order) ==
    /\ indexer.pc = "writing"
    /\ scorer.constructed
    /\ indexer' = [indexer EXCEPT !.pc = "queried"]
    /\ \E r \in {search(scorer, store, query_text, top_n, order, now)} :
          /\ store' = r.store
          /\ last' = [op |-> "search", query_text |-> query_text,
                      top_n |-> top_n, ret |-> r.ret]
    /\ UNCHANGED <<file, now, ref, saved, events, conc, scorer>>

NextScore ==
    \/ \E t \in Terms, d \in Docs, p \in Positions : WriteTerm(t, d, p)
    \/ \E d \in Docs, n \in 1..MaxDocLen : UpdateDocLength(d, n)
    \/ ConstructScorer
    \/ \E t \in Terms, d \in Docs : ScoreTerm(t, d)
    \/ \E query_text \in ScoreQueries, top_n \in TopNs :
           \E parsed_query \in {parse(query_text)} :
           \E order \in Orders(candidate_docs(store, parsed_query.terms,
                                              parsed_query.phrases, now)) :
               SearchStore(query_text, top_n, order)

SpecScore == InitScore /\ [][NextScore]_vars

\* the candidates of the last search
CandidatesOf(query_text) ==
    UNION {candidate_docs(store, parsed_query.terms, parsed_query.phrases,
                          now) : parsed_query \in {parse(query_text)}}

\* C21: a search in which the scoring of a candidate fails does not fail
\* itself: it returns, and what it returns are results of candidates.
C21_ScoringFailureIsNotFatal ==
    last.op = "search" =>
        /\ ~last.ret.error
        /\ ResultDocs(last.ret.results) \subseteq CandidatesOf(last.query_text)

\* C24: with a scorer whose average document length is zero (doc_lengths
\* was empty when it was constructed), scoring raises no error and the tf
\* score of every (term, document) pair is 0, so that the score of a
\* document for a term is 0, whatever postings the index holds when the
\* score is asked for.
C24_ZeroAverageScoresZero ==
    (last.op = "score_document" /\ scorer.avg_doc_length.num = 0) =>
        /\ ~last.ret.error
        /\ last.ret.score = 0

----------------------------------------------------------------------------
(* Claims about the parsed query.                                          *)

(* SpecParse: QueryParser.parse applied to one query text, drawn from the   *)
(* texts over all words (terms, stop words, words below the minimum token  *)
(* length), quoted or not.                                                 *)

InitParse ==
    /\ store = NewStore(0)
    /\ file = NoFile
    /\ now = 0
    /\ last = NoCall
    /\ ref = EmptyMap
    /\ saved = NoFile
    /\ events = 0
    /\ conc = NoThreads
    /\ scorer = NoScorer
    /\ \E query_text \in QueryTexts(Words) :
           indexer = [pc |-> "query", query_text |-> query_text]

\* QueryParser.parse
Parse ==
    /\ indexer.pc = "query"
    /\ indexer' = [indexer EXCEPT !.pc = "parsed"]
    /\ last' = [op |-> "parse", query_text |-> indexer.query_text,
                ret |-> parse(indexer.query_text)]
    /\ UNCHANGED <<store, file, now, ref, saved, events, conc, scorer>>

NextParse == Parse

SpecParse == InitParse /\ [][NextParse]_vars

\* C22: no phrase of a parsed query is an empty token list: a quoted span
\* that is empty, or whose words all fall to the tokenizer's filters, adds
\* no phrase.
C22_NoEmptyPhrase ==
    last.op = "parse" =>
        \A k \in 1..Len(last.ret.phrases) : last.ret.phrases[k] # <<>>

----------------------------------------------------------------------------
(* SpecMatch: is_exact_match applied to one list of positions, in any      *)
(* order and with duplicates, and one phrase length.                       *)

\* the lists handed to is_exact_match hold at most MaxMatchLen positions,
\* each at most MaxMatchPos, and phrases have at most MaxMatchLen terms
MaxMatchLen == 3
MaxMatchPos == 2

InitMatch ==
    /\ store = NewStore(0)
    /\ file = NoFile
    /\ now = 0
    /\ last = NoCall
    /\ ref = EmptyMap
    /\ saved = NoFile
    /\ events = 0
    /\ conc = NoThreads
    /\ scorer = NoScorer
    /\ \E doc_positions \in SeqsUpTo(0..MaxMatchPos, MaxMatchLen),
          phrase_length \in 1..MaxMatchLen :
           indexer = [pc |-> "positions",
                      doc_positions |-> doc_positions,
                      phrase_length |-> phrase_length]

\* query_parser.is_exact_match
IsExactMatch ==
    /\ indexer.pc = "positions"
    /\ indexer' = [indexer EXCEPT !.pc = "matched"]
    /\ last' = [op |-> "is_exact_match",
                doc_positions |-> indexer.doc_positions,
                phrase_length |-> indexer.phrase_length,
                ret |-> is_exact_match(indexer.doc_positions,
                                       indexer.phrase_length)]
    /\ UNCHANGED <<store, file, now, ref, saved, events, conc, scorer>>

NextMatch == IsExactMatch

SpecMatch == InitMatch /\ [][NextMatch]_vars

\* the list holds the values v, v+1, ..., v+n-1 for some v
HoldsRun(seq, n) ==
    \E v \in 0..MaxMatchPos :
        \A k \in 0..(n - 1) : \E i \in 1..Len(seq) : seq[i] = v + k

\* C23: for every list of positions, in any order and with duplicates, and
\* every L >= 1, is_exact_match(positions, L) is true exactly if the list
\* holds the values v, v+1, ..., v+L-1 for some v.
C23_ExactMatchIffRun ==
    last.op = "is_exact_match" =>
        (last.ret <=> HoldsRun(last.doc_positions, last.phrase_length))

----------------------------------------------------------------------------
(* Claims about the order in which the batches of a build complete.        *)

----------------------------------------------------------------------------
(* SpecLive: several threads call the methods of one IndexStorage; taking  *)
(* _buffer_lock, the block under the lock, the flush inside it, leaving    *)
(* the "with" block and the part of the method after it are steps of their *)
(* own.  A thread that has called waits at "acquire" until the lock is     *)
(* free.  Scheduling is fair: a thread that can take a step of its method  *)
(* eventually takes it, and a thread for which the lock is free again and  *)
(* again eventually gets it.  The clock stands still during the run.       *)

\* a "with" block that is left without releasing the lock
release_lock_never(c, th) == c

\* the end of "with self._buffer_lock"
release_lock(c, th) == [c EXCEPT !.lock = "none"]

\* the calls of the threads: all of them name the document d1
WriteCalls ==
    {[op |-> "add_term", term |-> t, doc_id |-> "d1"] : t \in Terms}
    \cup {[op |-> "batch_add_terms", tdp |-> t :> ("d1" :> <<0>>)] :
              t \in Terms}

ReadCalls ==
    {[op |-> o, term |-> t] :
        o \in {"get_term_info", "get_doc_frequency"}, t \in Terms}
    \cup {[op |-> "get_term_positions", term |-> t, doc_id |-> "d1"] :
              t \in Terms}
    \cup {[op |-> "get_docs_with_terms", terms |-> <<t>>] : t \in Terms}
    \cup {[op |-> "save_index"]}

InitLive ==
    /\ store = NewStore(0)
    /\ file = NoFile
    /\ now = 0
    /\ last = NoCall
    /\ ref = EmptyMap
    /\ saved = NoFile
    /\ events = 0
    /\ indexer = NoBuild
    /\ scorer = NoScorer
    /\ conc = [pc |-> [th \in Threads |-> "idle"],
               lock |-> "none",
               call |-> [th \in Threads |-> NoThreadCall]]

\* a thread calls a method and reaches its "with self._buffer_lock"
LiveCall(th, c) ==
    /\ conc.pc[th] = "idle"
    /\ c \in WriteCalls => events < MaxEvents
    /\ conc' = [conc EXCEPT !.pc[th] = "acquire", !.call[th] = c]
    /\ events' = IF c \in WriteCalls THEN events + 1 ELSE events
    /\ UNCHANGED <<store, file, now, last, ref, saved, indexer, scorer>>

\* the thread gets the lock
LiveAcquire(th) ==
    /\ conc.pc[th] = "acquire"
    /\ lock_free(conc)
    /\ conc' = [conc EXCEPT !.pc[th] = "locked", !.lock = th]
    /\ UNCHANGED <<store, file, now, last, ref, saved, events, indexer, scorer>>

\* the store after the buffer update of the call under the lock
LockedUpdate(s, c) ==
    IF c.op = "add_term"
    THEN [s EXCEPT !.write_buffer = BufferAdd(s.write_buffer, c.term,
                                              c.doc_id, s.buffer_size),
                   !.buffer_size = s.buffer_size + 1]
    ELSE IF c.op = "batch_add_terms"
    THEN [s EXCEPT !.write_buffer = AddPairs(s.write_buffer, c.tdp,
                                             PostingKeys(c.tdp)),
                   !.buffer_size = s.buffer_size
                                   + CountPositions(c.tdp, PostingKeys(c.tdp))]
    ELSE s

\* the condition under which the call flushes, inside its "with" block
FlushNeeded(s, c, time) ==
    IF c.op = "add_term"
    THEN \/ s.buffer_size >= max_buffer_size
         \/ time - s.last_flush_time >= flush_interval
    ELSE IF c.op = "batch_add_terms" THEN s.buffer_size >= max_buffer_size
    ELSE IF c.op \in {"get_term_info", "get_doc_frequency"}
    THEN c.term \in DOMAIN s.write_buffer
    ELSE IF c.op = "get_term_positions"
    THEN /\ c.term \in DOMAIN s.write_buffer
         /\ c.doc_id \in DOMAIN s.write_buffer[c.term]
    ELSE IF c.op = "get_docs_with_terms"
    THEN \E i \in 1..Len(c.terms) : c.terms[i] \in DOMAIN s.write_buffer
    ELSE s.buffer_size > 0

\* the statements under the lock up to the call of _flush_buffer
LiveLocked(th) ==
    /\ conc.pc[th] = "locked"
    /\ \E s1 \in {LockedUpdate(store, conc.call[th])} :
          /\ store' = s1
          /\ conc' = [conc EXCEPT !.pc[th] =
                         IF FlushNeeded(s1, conc.call[th], now)
                         THEN "flush" ELSE "release"]
    /\ UNCHANGED <<file, now, last, ref, saved, events, indexer, scorer>>

\* _flush_buffer, which takes no lock
LiveFlush(th) ==
    /\ conc.pc[th] = "flush"
    /\ store' = flush_buffer(store, now)
    /\ conc' = [conc EXCEPT !.pc[th] = "release"]
    /\ UNCHANGED <<file, now, last, ref, saved, events, indexer, scorer>>

\* the "with" block ends; a write call returns
LiveRelease(th) ==
    /\ conc.pc[th] = "release"
    /\ conc' = [release_lock(conc, th) EXCEPT
                   !.pc[th] = IF conc.call[th] \in WriteCalls
                              THEN "idle" ELSE "unlocked",
                   !.call[th] = IF conc.call[th] \in WriteCalls
                                THEN NoThreadCall ELSE conc.call[th]]
    /\ UNCHANGED <<store, file, now, last, ref, saved, events, indexer, scorer>>

\* the part of a read or of save_index after the "with" block; the call
\* returns
LiveReturn(th) ==
    /\ conc.pc[th] = "unlocked"
    /\ file' = IF conc.call[th].op = "save_index" THEN PickleDump(store)
               ELSE file
    /\ conc' = [conc EXCEPT !.pc[th] = "idle", !.call[th] = NoThreadCall]
    /\ UNCHANGED <<store, now, last, ref, saved, events, indexer, scorer>>

\* the steps of a method that do not wait for anything
LiveStep(th) ==
    LiveLocked(th) \/ LiveFlush(th) \/ LiveRelease(th) \/ LiveReturn(th)

NextLive ==
    \/ \E th \in Threads, c \in WriteCalls \cup ReadCalls : LiveCall(th, c)
    \/ \E th \in Threads : LiveAcquire(th)
    \/ \E th \in Threads : LiveLocked(th)
    \/ \E th \in Threads : LiveFlush(th)
    \/ \E th \in Threads : LiveRelease(th)
    \/ \E th \in Threads : LiveReturn(th)

SpecLive ==
    /\ InitLive
    /\ [][NextLive]_vars
    /\ \A th \in Threads : WF_vars(LiveStep(th)) /\ SF_vars(LiveAcquire(th))

\* C26: every call of a store method by any thread eventually returns; a
\* thread that requests the buffer lock does not hold it, and the block
\* under the lock and the flush run only in the thread that holds it.
C26_EveryCallReturns ==
    /\ [](\A th \in Threads :
             /\ conc.pc[th] = "acquire" => conc.lock # th
             /\ conc.pc[th] \in {"locked", "flush", "release"}
                    => conc.lock = th)
    /\ \A th \in Threads : (conc.pc[th] # "idle") ~> (conc.pc[th] = "idle")

\* a thread waits for the lock while the other one, which holds it, is
\* about to flush
C26_Witness ==
    \E th, other \in Threads :
        /\ conc.pc[th] = "acquire"
        /\ conc.lock = other
        /\ conc.pc[other] = "flush"

----------------------------------------------------------------------------
(* SpecTok: several threads share one Tokenizer and call tokenize_phrase   *)
(* and tokenize on it.  The attribute remove_stopwords is read and written *)
(* without any lock, so every statement of tokenize_phrase that touches it *)
(* is a step of its own, and so is the read of it inside tokenize.         *)

\* the texts the threads tokenize
TokTexts == SeqsUpTo({"a", "the"}, 1)

InitTok ==
    /\ store = NewStore(0)
    /\ file = NoFile
    /\ now = 0
    /\ last = NoCall
    /\ ref = EmptyMap
    /\ saved = NoFile
    /\ events = 0
    /\ indexer = NoBuild
    /\ scorer = NoScorer
    /\ conc = [pc |-> [th \in Threads |-> "idle"],
               remove_stopwords |-> REMOVE_STOPWORDS,
               call |-> [th \in Threads |-> NoThreadCall]]

\* tokenize_phrase, line 109: the flag is read into the local variable
PhraseSaveFlag(th, phrase) ==
    /\ conc.pc[th] = "idle"
    /\ events < MaxEvents
    /\ events' = events + 1
    /\ conc' = [conc EXCEPT
           !.pc[th] = "phrase_clear",
           !.call[th] = [op |-> "tokenize_phrase", text |-> phrase,
                         temp_remove_stopwords |-> conc.remove_stopwords]]
    /\ last' = NoCall
    /\ UNCHANGED <<store, file, now, ref, saved, indexer, scorer>>

\* tokenize_phrase, line 110
PhraseClearFlag(th) ==
    /\ conc.pc[th] = "phrase_clear"
    /\ conc' = [conc EXCEPT !.pc[th] = "phrase_tokenize",
                            !.remove_stopwords = FALSE]
    /\ last' = NoCall
    /\ UNCHANGED <<store, file, now, ref, saved, events, indexer, scorer>>

\* tokenize_phrase, line 111: tokenize reads the flag as it is now
PhraseTokenize(th) ==
    /\ conc.pc[th] = "phrase_tokenize"
    /\ conc' = [conc EXCEPT
           !.pc[th] = "phrase_restore",
           !.call[th] = [op |-> "tokenize_phrase",
                         text |-> conc.call[th].text,
                         temp_remove_stopwords |->
                             conc.call[th].temp_remove_stopwords,
                         tokens |-> tokenize(conc.call[th].text,
                                             conc.remove_stopwords)]]
    /\ last' = NoCall
    /\ UNCHANGED <<store, file, now, ref, saved, events, indexer, scorer>>

\* tokenize_phrase, lines 112-113: the flag is set to the saved value and
\* the call returns
PhraseRestoreFlag(th) ==
    /\ conc.pc[th] = "phrase_restore"
    /\ conc' = [conc EXCEPT
           !.pc[th] = "idle",
           !.remove_stopwords = conc.call[th].temp_remove_stopwords,
           !.call[th] = NoThreadCall]
    /\ last' = [op |-> "tokenize_phrase", text |-> conc.call[th].text,
                ret |-> conc.call[th].tokens]
    /\ UNCHANGED <<store, file, now, ref, saved, events, indexer, scorer>>

\* tokenize called directly: it reads the flag as it is now
TokenizeShared(th, text) ==
    /\ conc.pc[th] = "idle"
    /\ events < MaxEvents
    /\ events' = events + 1
    /\ last' = [op |-> "tokenize", text |-> text,
                ret |-> tokenize(text, conc.remove_stopwords)]
    /\ UNCHANGED <<store, file, now, ref, saved, indexer, conc, scorer>>

NextTok ==
    \/ \E th \in Threads, phrase \in TokTexts : PhraseSaveFlag(th, phrase)
    \/ \E th \in Threads : PhraseClearFlag(th)
    \/ \E th \in Threads : PhraseTokenize(th)
    \/ \E th \in Threads : PhraseRestoreFlag(th)
    \/ \E th \in Threads, text \in TokTexts : TokenizeShared(th, text)

SpecTok == InitTok /\ [][NextTok]_vars

\* C27: once all calls on the shared tokenizer have returned, its
\* remove_stopwords flag has its configured value, for every interleaving
\* of tokenize_phrase and tokenize calls.
C27_FlagRestored ==
    (\A th \in Threads : conc.pc[th] = "idle")
        => conc.remove_stopwords = REMOVE_STOPWORDS

----------------------------------------------------------------------------
(* Claims about a load that does not succeed.                              *)

\* the step is a load_index call that returns False or raises
LoadFails == last'.op = "load_index" /\ (last'.raised \/ ~last'.ret)

\* C28: a load that does not succeed (it returns false or raises) leaves
\* index, doc_lengths, total_docs and vocabulary as they were before the
\* call.
C28_FailedLoadChangesNothing ==
    [][LoadFails =>
           /\ store'.index = store.index
           /\ store'.doc_lengths = store.doc_lengths
           /\ store'.total_docs = store.total_docs
           /\ store'.vocabulary = store.vocabulary]_vars

----------------------------------------------------------------------------
(* utils/snippet.py: SnippetGenerator.generate_snippet.  A text is a       *)
(* sequence of characters; offsets are 0-based as in the code, so the      *)
(* character at offset i is content[i + 1].                                *)

MaxTextLen == 5
MaxContextSize == 2
MaxSnippetLength == 4

Chars == {"a", "A", "b"}

Contents == SeqsUpTo(Chars, MaxTextLen)

QueryTermLists == {<< <<"a">> >>, << <<"b">>, <<"A">> >>,
                   << <<"a", "b">> >>, << <<"b", "b">>, <<>> >>}

NoContentMessage == "no content"

Ellipsis == "..."

max(a, b) == IF a >= b THEN a ELSE b

min(a, b) == IF a <= b THEN a ELSE b

\* str.lower on one character
lower_char(c) == IF c = "A" THEN "a" ELSE c

lower(text) == [i \in 1..Len(text) |-> lower_char(text[i])]

\* text[from:to]
Slice(text, from, to) == [i \in 1..(to - from) |-> text[from + i]]

OccursAt(text, term, i) ==
    /\ i + Len(term) <= Len(text)
    /\ \A k \in 1..Len(term) : text[i + k] = term[k]

\* str.find(term, term_pos): the lowest offset >= term_pos, or -1
find(text, term, term_pos) ==
    LET hits == {i \in term_pos..Len(text) : OccursAt(text, term, i)}
    IN  IF hits = {} THEN -1
        ELSE CHOOSE i \in hits : \A j \in hits : i <= j

\* the while loop of one term
RECURSIVE FindLoop(_, _, _)
FindLoop(content_lower, term, term_pos) ==
    LET found == find(content_lower, term, term_pos)
    IN  IF found = -1 THEN <<>>
        ELSE <<<<found, found + Len(term)>>>>
             \o FindLoop(content_lower, term, found + 1)

RECURSIVE FindPositions(_, _, _)
FindPositions(content_lower, query_terms_lower, k) ==
    IF k > Len(query_terms_lower) THEN <<>>
    ELSE FindLoop(content_lower, query_terms_lower[k], 0)
         \o FindPositions(content_lower, query_terms_lower, k + 1)

\* tuple comparison of list.sort
PairLeq(p, q) == p[1] < q[1] \/ (p[1] = q[1] /\ p[2] <= q[2])

RECURSIVE InsertPair(_, _)
InsertPair(sorted, p) ==
    IF sorted = <<>> THEN <<p>>
    ELSE IF PairLeq(p, Head(sorted)) THEN <<p>> \o sorted
    ELSE <<Head(sorted)>> \o InsertPair(Tail(sorted), p)

RECURSIVE SortPositions(_)
SortPositions(positions) ==
    IF positions = <<>> THEN <<>>
    ELSE InsertPair(SortPositions(Tail(positions)), Head(positions))

\* the merge loop over positions[1:], with the final append
RECURSIVE MergeLoop(_, _, _, _, _)
MergeLoop(positions, k, current_start, current_end, context_size) ==
    IF k > Len(positions) THEN <<<<current_start, current_end>>>>
    ELSE IF positions[k][1] <= current_end + context_size
    THEN MergeLoop(positions, k + 1, current_start,
                   max(current_end, positions[k][2]), context_size)
    ELSE <<<<current_start, current_end>>>>
         \o MergeLoop(positions, k + 1, positions[k][1], positions[k][2],
                      context_size)

MergedPositions(content, query_terms, context_size) ==
    LET positions == SortPositions(
            FindPositions(lower(content),
                          [k \in 1..Len(query_terms) |-> lower(query_terms[k])],
                          1))
    IN  IF positions = <<>> THEN <<>>
        ELSE MergeLoop(positions, 2, positions[1][1], positions[1][2],
                       context_size)

\* the span [snippet_start, snippet_end) cut around the range [start, end)
SnippetSpan(len, start, end, context_size, max_snippet_length) ==
    LET snippet_start == max(0, start - context_size)
        snippet_end == min(len, end + context_size)
        half_length == max_snippet_length \div 2
        term_center == (start + end) \div 2
        recentred == max(0, term_center - half_length)
    IN  IF snippet_end - snippet_start > max_snippet_length
        THEN <<recentred, min(len, recentred + max_snippet_length)>>
        ELSE <<snippet_start, snippet_end>>

WithEllipsis(content, span) ==
    (IF span[1] > 0 THEN <<Ellipsis>> ELSE <<>>)
    \o Slice(content, span[1], span[2])
    \o (IF span[2] < Len(content) THEN <<Ellipsis>> ELSE <<>>)

\* the span field records which part of the content the snippet holds
generate_snippet(content, query_terms, context_size, max_snippet_length) ==
    IF content = <<>>
    THEN [ret |-> NoContentMessage, cut |-> FALSE]
    ELSE LET merged_positions ==
                 MergedPositions(content, query_terms, context_size)
         IN
        IF merged_positions = <<>>
        THEN [ret |-> Slice(content, 0, min(Len(content), max_snippet_length))
                      \o <<Ellipsis>>,
              cut |-> TRUE, matched |-> FALSE,
              span |-> <<0, min(Len(content), max_snippet_length)>>]
        ELSE LET span == SnippetSpan(Len(content), merged_positions[1][1],
                                     merged_positions[1][2], context_size,
                                     max_snippet_length)
             IN
             [ret |-> WithEllipsis(content, span),
              cut |-> TRUE, matched |-> TRUE, span |-> span]

InitSnippet ==
    /\ store = NewStore(0)
    /\ file = NoFile
    /\ now = 0
    /\ last = NoCall
    /\ ref = EmptyMap
    /\ saved = NoFile
    /\ events = 0
    /\ conc = NoThreads
    /\ scorer = NoScorer
    /\ \E content \in Contents, query_terms \in QueryTermLists,
          context_size \in 0..MaxContextSize,
          max_snippet_length \in 1..MaxSnippetLength :
           indexer = [pc |-> "content",
                      content |-> content,
                      query_terms |-> query_terms,
                      context_size |-> context_size,
                      max_snippet_length |-> max_snippet_length]

GenerateSnippet ==
    /\ indexer.pc = "content"
    /\ indexer' = [indexer EXCEPT !.pc = "snippet"]
    /\ \E r \in {generate_snippet(indexer.content, indexer.query_terms,
                                  indexer.context_size,
                                  indexer.max_snippet_length)} :
           last' = [op |-> "generate_snippet"] @@ r
    /\ UNCHANGED <<store, file, now, ref, saved, events, conc, scorer>>

NextSnippet == GenerateSnippet

SpecSnippet == InitSnippet /\ [][NextSnippet]_vars

\* the first merged match range of the call, as <<start, end>>
FirstRange ==
    MergedPositions(indexer.content, indexer.query_terms,
                    indexer.context_size)[1]

\* the first merged range widened by context_size, clamped to the text
ExpandedLength ==
    min(Len(indexer.content), FirstRange[2] + indexer.context_size)
    - max(0, FirstRange[1] - indexer.context_size)

\* C29: when the first merged match range expanded by the context size is
\* longer than the maximal snippet length, the extracted span is
\* [max(0, m - MAX // 2), min(len(text), m + MAX // 2)] with m the midpoint of
\* that range; in every case 0 <= start <= end <= len(text) and
\* end - start <= MAX.
C29_SnippetSpan ==
    (last.op = "generate_snippet" /\ last.cut) =>
        /\ (last.matched /\ ExpandedLength > indexer.max_snippet_length) =>
               LET m == (FirstRange[1] + FirstRange[2]) \div 2
                   half == indexer.max_snippet_length \div 2
               IN  last.span = <<max(0, m - half),
                                 min(Len(indexer.content), m + half)>>
        /\ 0 <= last.span[1]
        /\ last.span[1] <= last.span[2]
        /\ last.span[2] <= Len(indexer.content)
        /\ last.span[2] - last.span[1] <= indexer.max_snippet_length

\* the bounds part of C29 alone: every span lies inside the text and is at
\* most max_snippet_length long
SnippetSpanInBounds ==
    (last.op = "generate_snippet" /\ last.cut) =>
        /\ 0 <= last.span[1]
        /\ last.span[1] <= last.span[2]
        /\ last.span[2] <= Len(indexer.content)
        /\ last.span[2] - last.span[1] <= indexer.max_snippet_length


============================================================================
